---- MODULE Spec2Model ----
(***************************************************************************)
(* Model of the snapcrab MIR interpreter's memory subsystem:               *)
(*   - MemorySanitizer   (src/snapcrab/src/memory/sanitizer.rs)            *)
(*   - Stack/StackFrame  (src/snapcrab/src/memory/stack.rs)                *)
(*   - ThreadMemory      (src/snapcrab/src/memory.rs)                      *)
(* Addresses are machine words of a scaled-down width: every usize lies in *)
(* 0..MaxUsize and `+` on usize either panics (overflow checks on) or      *)
(* wraps modulo MaxUsize+1 (overflow checks off), as the build decides.    *)
(***************************************************************************)
EXTENDS Integers, Sequences, FiniteSets, TLC

VARIABLES
    overflow_checks,  \* build profile: TRUE = `+` panics on overflow, FALSE = wraps
    allocations,      \* Stack.sanitizer.allocations: set of <<start, size>>, keys unique
    frames,           \* Stack.frames: sequence of StackFrame
    calls,            \* active with_stack_frame invocations, outermost first
    status,           \* "ready" | "running" | "done" | "aborted"
    result,           \* result of the entry invocation: "none" | "ok" | "err"
    nextId,           \* number of with_stack_frame invocations started so far, plus one
    peak,             \* deepest call nesting reached so far
    log,              \* per invocation: pops / deregistrations of its frame, outcome
    ptr,              \* the pointer value the interpreted program holds, if any
    acc,              \* the typed access performed by the last step, if any
    san,              \* the sanitizer operation performed by the last step (unit-level spec)
    bytes,            \* the byte stored at each address of the host's memory
    value,            \* the Value the last step read from memory, as bytes
    eval              \* the terminator or operator evaluated by the last step:
                      \* its operands and its outcome (function-level specs)

vars == <<overflow_checks, allocations, frames, calls, status, result, nextId,
          peak, log, ptr, acc, san, bytes, value, eval>>

----------------------------------------------------------------------------
(* Bounds of the model *)

MaxUsize == 7
MaxDepth == 2
MaxCalls == 3
MaxByte == 1
NarrowBits == 2
WideBits == 4

Addr == 0..MaxUsize

\* The values of a byte, scaled down from 0..255
Byte == 0..MaxByte

----------------------------------------------------------------------------
(* Types: size and alignment as MonoType reports them *)

UnitTy == [name |-> "unit", size |-> 0, align |-> 1]
U8Ty == [name |-> "u8", size |-> 1, align |-> 1]
U16Ty == [name |-> "u16", size |-> 2, align |-> 2]

Types == {UnitTy, U8Ty, U16Ty}

\* Bodies of the interpreted program: the locals table, local 0 first.
Bodies == { <<UnitTy>>, <<U8Ty>>, <<U16Ty>>, <<U8Ty, U16Ty>> }

----------------------------------------------------------------------------
(* usize arithmetic *)

Overflows(a, b) == a + b > MaxUsize

WrappingAdd(a, b) == (a + b) % (MaxUsize + 1)

----------------------------------------------------------------------------
(* MemorySanitizer *)

AllocStarts(allocs) == { e[1] : e \in allocs }

AllocSize(allocs, start) == (CHOOSE e \in allocs : e[1] = start)[2]

\* BTreeMap::insert: replaces the entry with the same key
MapInsert(allocs, address, size) ==
    { e \in allocs : e[1] # address } \cup { <<address, size>> }

\* Faulty remove: the entry stays in the map
MapRemoveKeeps(allocs, address) == allocs

\* BTreeMap::remove
MapRemove(allocs, address) == { e \in allocs : e[1] # address }

\* Faulty has_overlap: only sees an existing range that holds the new start
HasOverlapStartOnly(allocs, address, size) ==
    \E e \in allocs : e[1] <= address /\ address < e[1] + e[2]

\* Faulty has_overlap: `<=` for `<`, so ranges that only touch count as overlapping
HasOverlapTouching(allocs, address, size) ==
    \E e \in allocs : address <= e[1] + e[2] /\ e[1] <= address + size

\* has_overlap
HasOverlap(allocs, address, size) ==
    LET end == address + size IN
    \E e \in allocs :
        LET start == e[1]
            alloc_end == e[1] + e[2]
        IN address < alloc_end /\ start < end

\* register_alloc panics (assert!) exactly when this holds
RegisterAborts(allocs, address, size) ==
    size > 0 /\ HasOverlap(allocs, address, size)

\* Faulty register_alloc: an empty buffer is recorded too
RegisterAllocEmptyToo(allocs, address, size) == MapInsert(allocs, address, size)

RegisterAlloc(allocs, address, size) ==
    IF size > 0 THEN MapInsert(allocs, address, size) ELSE allocs

\* deregister_alloc panics exactly when this holds
DeregisterAborts(allocs, address, size) ==
    size > 0 /\ address \notin AllocStarts(allocs)

\* Faulty deregister_alloc: nothing is removed
DeregisterAllocKeeps(allocs, address, size) == allocs

DeregisterAlloc(allocs, address, size) ==
    IF size > 0 THEN MapRemove(allocs, address) ELSE allocs

\* self.allocations.range(..=address).next_back()
HasPredecessor(allocs, address) == \E e \in allocs : e[1] <= address

\* Faulty lookup: the last entry of the map, wherever the address lies
PredecessorLast(allocs, address) ==
    CHOOSE e \in allocs : \A f \in allocs : f[1] <= e[1]

\* self.allocations.range(..=address).next_back()
Predecessor(allocs, address) ==
    CHOOSE e \in allocs :
        /\ e[1] <= address
        /\ \A f \in allocs : f[1] <= address => f[1] <= e[1]

\* `address + size` in contains overflows; evaluated only when a predecessor exists
ContainsOverflows(allocs, address, size) ==
    HasPredecessor(allocs, address) /\ Overflows(address, size)

\* The value contains returns when it returns (overflow wraps)
Contains(allocs, address, size) ==
    IF HasPredecessor(allocs, address)
    THEN LET p == Predecessor(allocs, address)
             start == p[1]
             alloc_end == p[1] + p[2]
             request_end == WrappingAdd(address, size)
         IN address >= start /\ request_end <= alloc_end
    ELSE FALSE

\* Outcome of a call of contains under the given build profile
ContainsOutcome(checks, allocs, address, size) ==
    IF checks /\ ContainsOverflows(allocs, address, size) THEN "panic"
    ELSE IF Contains(allocs, address, size) THEN "true"
    ELSE "false"

----------------------------------------------------------------------------
(* StackFrame *)

\* Faulty alignment: the offset is left where the previous local ended
AlignUpNone(current_offset, alignment) == current_offset

\* (current_offset + alignment - 1) & !(alignment - 1), alignment a power of 2
AlignUp(current_offset, alignment) ==
    ((current_offset + alignment - 1) \div alignment) * alignment

RECURSIVE LayoutFrom(_, _, _, _)
LayoutFrom(locals, i, current_offset, offsets) ==
    IF i > Len(locals)
    THEN [offsets |-> offsets, size |-> current_offset]
    ELSE LET aligned == AlignUp(current_offset, locals[i].align)
         IN LayoutFrom(locals, i + 1, aligned + locals[i].size,
                       Append(offsets, aligned))

\* StackFrame::new: the offsets table and the length of the zeroed buffer
StackFrameNew(body) == LayoutFrom(body, 1, 0, <<>>)

\* vec![0; current_offset] of StackFrame::new, as the boxed slice itself
StackFrameData(body) == [i \in 1..StackFrameNew(body).size |-> 0]

\* as_ptr() of an empty boxed slice: NonNull::dangling() of a u8
DanglingAddr == 1

\* Where the host allocator may place a new frame buffer of `size` bytes: a block
\* that does not wrap the address space and shares no byte with a live buffer.
\* Blocks of popped frames are free again.
FreshBlocks(fs, size) ==
    IF size = 0 THEN {DanglingAddr}
    ELSE { b \in 1..MaxUsize :
             /\ b + size <= MaxUsize
             /\ \A i \in DOMAIN fs :
                    \/ fs[i].size = 0
                    \/ b + size <= fs[i].addr
                    \/ fs[i].addr + fs[i].size <= b }

\* vec![0; current_offset]: the new buffer holds zeroes
ZeroFill(mem, base, size) ==
    [a \in Addr |-> IF base <= a /\ a < base + size THEN 0 ELSE mem[a]]

\* StackFrame::local_address
LocalAddress(frame, local) == frame.addr + frame.offsets[local]

LiveIds == { frames[i].id : i \in DOMAIN frames }

----------------------------------------------------------------------------
(* Memory segments and ThreadMemory *)

\* impl MemorySegment for Stack: read_addr / write_addr
StackAccess(checks, allocs, address, size) ==
    LET c == ContainsOutcome(checks, allocs, address, size) IN
    IF c = "panic" THEN "panic"
    ELSE IF c = "true" THEN "Ok"
    ELSE "OutOfBounds"

\* impl MemorySegment for Heap
HeapAccess(address, size) == "NotFound"

\* impl MemorySegment for Statics
StaticsAccess(address, size) == "NotFound"

\* The match cascade of ThreadMemory::read_addr / write_addr
SegmentCascade(checks, allocs, address, size) ==
    LET s == StackAccess(checks, allocs, address, size) IN
    IF s = "panic" THEN [res |-> "panic", consulted |-> <<"stack">>]
    ELSE IF s = "Ok" THEN [res |-> "Ok", consulted |-> <<"stack">>]
    ELSE IF s = "OutOfBounds"
    THEN [res |-> "StackOutOfBounds", consulted |-> <<"stack">>]
    ELSE LET h == HeapAccess(address, size) IN
    IF h = "Ok" THEN [res |-> "Ok", consulted |-> <<"stack", "heap">>]
    ELSE IF h = "OutOfBounds"
    THEN [res |-> "HeapOutOfBounds", consulted |-> <<"stack", "heap">>]
    ELSE LET t == StaticsAccess(address, size) IN
    IF t = "Ok" THEN [res |-> "Ok", consulted |-> <<"stack", "heap", "statics">>]
    ELSE IF t = "OutOfBounds"
    THEN [res |-> "StaticOutOfBounds", consulted |-> <<"stack", "heap", "statics">>]
    ELSE [res |-> "NotFound", consulted |-> <<"stack", "heap", "statics">>]

\* ThreadMemory::read_addr
TMReadAddr(checks, allocs, address, ty) ==
    IF address % ty.align # 0
    THEN [res |-> "Misaligned", consulted |-> <<>>]
    ELSE SegmentCascade(checks, allocs, address, ty.size)

\* Faulty write_addr: the alignment of the address is not checked
TMWriteAddrUnaligned(checks, allocs, address, len, ty) ==
    IF len # ty.size
    THEN [res |-> "SizeMismatch", consulted |-> <<>>]
    ELSE SegmentCascade(checks, allocs, address, len)

\* Faulty write_addr: the length of the data is not compared with the type's size
TMWriteAddrAnyLength(checks, allocs, address, len, ty) ==
    IF address % ty.align # 0
    THEN [res |-> "Misaligned", consulted |-> <<>>]
    ELSE SegmentCascade(checks, allocs, address, len)

\* ThreadMemory::write_addr
TMWriteAddr(checks, allocs, address, len, ty) ==
    IF address % ty.align # 0
    THEN [res |-> "Misaligned", consulted |-> <<>>]
    ELSE IF len # ty.size
    THEN [res |-> "SizeMismatch", consulted |-> <<>>]
    ELSE SegmentCascade(checks, allocs, address, len)

----------------------------------------------------------------------------
(* The interpreter driving the stack: one invocation of the entry function on  *)
(* a new ThreadMemory, with nested calls                                       *)

NoAcc == [op |-> "none", address |-> 0, ty |-> UnitTy, len |-> 0,
          res |-> "none", consulted |-> <<>>]

NoPtr == [addr |-> 0, ty |-> UnitTy, frame |-> 0]

NoEval == [op |-> "none"]

NoSan == [op |-> "none", address |-> 0, size |-> 0, res |-> "none", prev |-> {}]

Top(seq) == seq[Len(seq)]

Front(seq) == SubSeq(seq, 1, Len(seq) - 1)

\* The body of the running call may take a step
BodyRuns ==
    /\ status = "running"
    /\ calls # <<>>
    /\ Top(calls).pending = "none"

Abort ==
    /\ status' = "aborted"
    /\ acc' = NoAcc
    /\ UNCHANGED <<eval, overflow_checks, allocations, frames, calls, result, nextId,
                   peak, log, ptr, san, bytes, value>>

\* The error of a failed step is propagated with `?`: the body ends with it
Propagate(res) ==
    IF res = "Ok" THEN calls
    ELSE [calls EXCEPT ![Len(calls)].pending = "err"]

\* Stack::with_stack_frame up to the call of func: StackFrame::new, register_alloc,
\* frames.push. Run for the entry function (lib.rs) and for every Call terminator.
Enter(body, base) ==
    /\ \/ status = "ready"
       \/ BodyRuns
    /\ Len(calls) < MaxDepth
    /\ nextId <= MaxCalls
    /\ LET layout == StackFrameNew(body)
           frame == [id |-> nextId, addr |-> base, size |-> layout.size,
                     offsets |-> layout.offsets, locals |-> body,
                     written |-> {}]
       IN /\ base \in FreshBlocks(frames, layout.size)
          /\ IF RegisterAborts(allocations, base, layout.size)
             THEN Abort
             ELSE /\ allocations' = RegisterAlloc(allocations, base, layout.size)
                  /\ frames' = Append(frames, frame)
                  /\ calls' = Append(calls, [id |-> nextId, address |-> base,
                                             pending |-> "none"])
                  /\ log' = Append(log, [pops |-> 0, deregs |-> 0,
                                         outcome |-> "live"])
                  /\ nextId' = nextId + 1
                  /\ peak' = IF Len(calls) + 1 > peak THEN Len(calls) + 1 ELSE peak
                  /\ status' = "running"
                  /\ acc' = NoAcc
                  /\ bytes' = ZeroFill(bytes, base, layout.size)
                  /\ value' = <<>>
                  /\ UNCHANGED <<eval, overflow_checks, result, ptr, san>>

\* Rvalue::Ref / Rvalue::AddressOf of a local of the running call: the program
\* now holds the local's address
TakeRef(local) ==
    /\ BodyRuns
    /\ local \in DOMAIN Top(frames).locals
    /\ ptr' = [addr |-> LocalAddress(Top(frames), local),
               ty |-> Top(frames).locals[local],
               frame |-> Top(frames).id]
    /\ acc' = NoAcc
    /\ UNCHANGED <<eval, overflow_checks, allocations, frames, calls, status, result,
                   nextId, peak, log, san, bytes, value>>

\* ThreadMemory::read_addr at any address the program computed
ReadAddr(address, ty) ==
    /\ BodyRuns
    /\ LET r == TMReadAddr(overflow_checks, allocations, address, ty) IN
       /\ acc' = [op |-> "read", address |-> address, ty |-> ty, len |-> ty.size,
                  res |-> r.res, consulted |-> r.consulted]
       /\ status' = IF r.res = "panic" THEN "aborted" ELSE status
       /\ calls' = IF r.res = "panic" THEN calls ELSE Propagate(r.res)
    /\ UNCHANGED <<eval, overflow_checks, allocations, frames, result, nextId, peak,
                   log, ptr, san, bytes, value>>

\* ThreadMemory::write_addr at any address the program computed
WriteAddr(address, len, ty) ==
    /\ BodyRuns
    /\ LET r == TMWriteAddr(overflow_checks, allocations, address, len, ty) IN
       /\ acc' = [op |-> "write", address |-> address, ty |-> ty, len |-> len,
                  res |-> r.res, consulted |-> r.consulted]
       /\ status' = IF r.res = "panic" THEN "aborted" ELSE status
       /\ calls' = IF r.res = "panic" THEN calls ELSE Propagate(r.res)
    /\ UNCHANGED <<eval, overflow_checks, allocations, frames, result, nextId, peak,
                   log, ptr, san, bytes, value>>

\* Any other failing statement or terminator of the running body (bail!)
Fail ==
    /\ BodyRuns
    /\ calls' = Propagate("Err")
    /\ acc' = NoAcc
    /\ UNCHANGED <<eval, overflow_checks, allocations, frames, status, result, nextId,
                   peak, log, ptr, san, bytes, value>>

\* A panic in the running body (an unwrap, an expect, an overflow check):
\* the process stops where it is
Panic ==
    /\ BodyRuns
    /\ Abort

\* Faulty cleanup: skipped when func returned an error (an early `?` return)
CleanupOnSuccessOnly(allocs, fs, res) ==
    IF res = "err"
    THEN [allocations |-> allocs, frames |-> fs, deregs |-> 0]
    ELSE [allocations |-> DeregisterAlloc(allocs, Top(fs).addr, Top(fs).size),
          frames |-> Front(fs),
          deregs |-> 1]

\* Faulty cleanup: the range is deregistered but the frame stays on the list
CleanupKeepsFrame(allocs, fs, res) ==
    [allocations |-> DeregisterAlloc(allocs, Top(fs).addr, Top(fs).size),
     frames |-> fs,
     deregs |-> 1]

\* The cleanup of with_stack_frame after func returned `res`:
\* deregister_alloc(data) and frames.pop()
Cleanup(allocs, fs, res) ==
    [allocations |-> DeregisterAlloc(allocs, Top(fs).addr, Top(fs).size),
     frames |-> Front(fs),
     deregs |-> 1]

\* func returns (a Return terminator, or the propagated error) and
\* with_stack_frame finishes: the cleanup, then the result goes to the caller
Return ==
    /\ status = "running"
    /\ calls # <<>>
    /\ LET call == Top(calls)
           res == IF call.pending = "err" THEN "err" ELSE "ok"
       IN IF \/ frames = <<>>
             \/ Top(frames).addr # call.address
             \/ DeregisterAborts(allocations, Top(frames).addr, Top(frames).size)
          THEN Abort
          ELSE LET c == Cleanup(allocations, frames, res)
                   fid == Top(frames).id
                   logged == [log EXCEPT ![call.id].outcome = res]
               IN /\ allocations' = c.allocations
                  /\ frames' = c.frames
                  /\ log' = [logged EXCEPT
                               ![fid].pops = @ + (Len(frames) - Len(c.frames)),
                               ![fid].deregs = @ + c.deregs]
                  /\ calls' = IF Len(calls) = 1 THEN <<>>
                              ELSE [Front(calls) EXCEPT ![Len(calls) - 1].pending =
                                        IF res = "err" THEN "err" ELSE @]
                  /\ status' = IF Len(calls) = 1 THEN "done" ELSE "running"
                  /\ result' = IF Len(calls) = 1 THEN res ELSE result
                  /\ acc' = NoAcc
                  /\ UNCHANGED <<eval, overflow_checks, nextId, peak, ptr, san, bytes, value>>

Init ==
    /\ overflow_checks \in BOOLEAN
    /\ allocations = {}
    /\ frames = <<>>
    /\ calls = <<>>
    /\ status = "ready"
    /\ result = "none"
    /\ nextId = 1
    /\ peak = 0
    /\ log = <<>>
    /\ ptr = NoPtr
    /\ acc = NoAcc
    /\ san = NoSan
    /\ bytes = [a \in Addr |-> 0]
    /\ value = <<>>
    /\ eval = NoEval

Next ==
    \/ \E body \in Bodies, base \in Addr : Enter(body, base)
    \/ \E local \in 1..2 : TakeRef(local)
    \/ \E address \in Addr, ty \in Types : ReadAddr(address, ty)
    \/ \E address \in Addr, ty \in Types, len \in {t.size : t \in Types} :
           WriteAddr(address, len, ty)
    \/ Fail
    \/ Panic
    \/ Return

Spec == Init /\ [][Next]_vars

\* with_stack_frame under an arbitrary body: func is opaque to it, and all a body
\* can do to the stack is call (Enter), fail, panic, or return
NextCalls ==
    \/ \E body \in Bodies, base \in Addr : Enter(body, base)
    \/ Fail
    \/ Panic
    \/ Return

CallSpec == Init /\ [][NextCalls]_vars

----------------------------------------------------------------------------
(* ThreadMemory with the contents of memory: typed reads and writes on the     *)
(* frames of the running calls                                                 *)

\* The byte strings a Value can hold here: one per size of a type
Datas == UNION { [1..n -> Byte] : n \in { t.size : t \in Types } }

\* std::ptr::copy(data.as_ptr(), address as *mut u8, data.len())
CopyBytes(mem, address, data) ==
    [a \in Addr |-> IF address <= a /\ a < address + Len(data)
                    THEN data[a - address + 1]
                    ELSE mem[a]]

\* std::slice::from_raw_parts(address as *const u8, size), as a Value
\* (addresses past the last one wrap around)
ReadBytes(mem, address, size) ==
    [i \in 1..size |-> mem[(address + i - 1) % (MaxUsize + 1)]]

\* ThreadMemory::write_addr(address, data, ty) called by the running body:
\* its outcome, the bytes stored, and the error propagated with `?`.
\* `op` tells a write to a local ("write") from one through a Deref projection.
WriteEffect(op, address, data, ty) ==
    LET r == TMWriteAddr(overflow_checks, allocations, address, Len(data), ty) IN
    /\ acc' = [op |-> op, address |-> address, ty |-> ty,
               len |-> Len(data), res |-> r.res, consulted |-> r.consulted]
    /\ bytes' = IF r.res = "Ok" THEN CopyBytes(bytes, address, data) ELSE bytes
    /\ status' = IF r.res = "panic" THEN "aborted" ELSE status
    /\ calls' = IF r.res = "panic" THEN calls ELSE Propagate(r.res)

\* ThreadMemory::write_addr(address, data, ty), the bytes written included
MemWriteAddr(address, data, ty) ==
    /\ BodyRuns
    /\ WriteEffect("write", address, data, ty)
    /\ value' = <<>>
    /\ UNCHANGED <<eval, overflow_checks, allocations, frames, result, nextId, peak,
                   log, ptr, san>>

\* ThreadMemory::read_addr(address, ty) called by the running body: its
\* outcome and the Value it returns
ReadEffect(address, ty) ==
    LET r == TMReadAddr(overflow_checks, allocations, address, ty) IN
    /\ acc' = [op |-> "read", address |-> address, ty |-> ty, len |-> ty.size,
               res |-> r.res, consulted |-> r.consulted]
    /\ value' = IF r.res = "Ok" THEN ReadBytes(bytes, address, ty.size) ELSE <<>>
    /\ status' = IF r.res = "panic" THEN "aborted" ELSE status
    /\ calls' = IF r.res = "panic" THEN calls ELSE Propagate(r.res)

\* ThreadMemory::read_addr(address, ty): memory is only read
MemReadAddr(address, ty) ==
    /\ BodyRuns
    /\ ReadEffect(address, ty)
    /\ UNCHANGED <<eval, overflow_checks, allocations, frames, result, nextId, peak,
                   log, ptr, san, bytes>>

\* The blocks a first-fit host allocator hands out: the lowest fresh one
FirstFit(fs, size) ==
    { b \in FreshBlocks(fs, size) : \A c \in FreshBlocks(fs, size) : b <= c }

MemNext ==
    \/ \E body \in Bodies :
         \E base \in FirstFit(frames, StackFrameNew(body).size) : Enter(body, base)
    \/ \E address \in Addr, data \in Datas, ty \in Types :
           MemWriteAddr(address, data, ty)
    \/ \E address \in Addr, ty \in Types : MemReadAddr(address, ty)

MemSpec == Init /\ [][MemNext]_vars

----------------------------------------------------------------------------
(* The interpreter's places: statements and the Return terminator of the       *)
(* running body, over ThreadMemory                                             *)

\* Thin references: one machine word, which here fits one cell of memory
RefU8Ty == [name |-> "&mut u8", size |-> 1, align |-> 1]
RefU16Ty == [name |-> "&mut u16", size |-> 1, align |-> 1]
RefUnitTy == [name |-> "&()", size |-> 1, align |-> 1]

\* TyKind::RigidTy(RigidTy::Ref(_, pointee, _)) | RigidTy::RawPtr(pointee, _)
IsPointer(ty) == ty \in {RefU8Ty, RefU16Ty, RefUnitTy}

Pointee(ty) ==
    IF ty = RefU8Ty THEN U8Ty ELSE IF ty = RefU16Ty THEN U16Ty ELSE UnitTy

\* Bodies with a return slot, a variable and a reference to it
ProgBodies ==
    { <<UnitTy>>, <<U8Ty>>, <<U8Ty, U8Ty, RefU8Ty>>, <<U16Ty, U16Ty, RefU16Ty>> }

\* The locals of a frame that share a byte with [address, address + len)
LocalsTouched(frame, address, len) ==
    { l \in DOMAIN frame.locals :
        /\ address < LocalAddress(frame, l) + frame.locals[l].size
        /\ LocalAddress(frame, l) < address + len }

\* Every local a store reached has been written by this call
MarkWritten(fs, address, len) ==
    [i \in DOMAIN fs |->
        [fs[i] EXCEPT !.written = @ \cup LocalsTouched(fs[i], address, len)]]

\* assign_to_place once the place's address is resolved
AssignEffect(op, address, data, ty) ==
    /\ WriteEffect(op, address, data, ty)
    /\ frames' = IF TMWriteAddr(overflow_checks, allocations, address,
                                Len(data), ty).res = "Ok"
                 THEN MarkWritten(frames, address, Len(data))
                 ELSE frames
    /\ value' = <<>>
    /\ UNCHANGED <<eval, overflow_checks, allocations, result, nextId, peak, log,
                   ptr, san>>

\* StatementKind::Assign(_local, Rvalue::Use(const data))
AssignConst(local, data) ==
    /\ BodyRuns
    /\ local \in DOMAIN Top(frames).locals
    /\ AssignEffect("write", LocalAddress(Top(frames), local), data,
                    Top(frames).locals[local])

\* StatementKind::Assign(_dst, Rvalue::Ref(_src) | Rvalue::AddressOf(_src))
AssignRef(dst, src) ==
    /\ BodyRuns
    /\ {dst, src} \subseteq DOMAIN Top(frames).locals
    /\ AssignEffect("write", LocalAddress(Top(frames), dst),
                    <<LocalAddress(Top(frames), src)>>,
                    Top(frames).locals[dst])

\* Faulty Deref: the address of the pointer itself, not the one stored in it
DerefTargetSelf(mem, at) == at

\* ProjectionElem::Deref: the usize read from the pointer's place
DerefTarget(mem, at) == mem[at]

\* StatementKind::Assign((*_r), Rvalue::Use(const data)): resolve_place_addr
\* reads the pointer stored in _r, then the data goes to the pointee
AssignDeref(r, data) ==
    /\ BodyRuns
    /\ r \in DOMAIN Top(frames).locals
    /\ LET ty == Top(frames).locals[r]
           at == LocalAddress(Top(frames), r)
       IN IF ~IsPointer(ty)
          THEN /\ calls' = Propagate("Err")
               /\ acc' = NoAcc
               /\ UNCHANGED <<eval, overflow_checks, allocations, frames, status,
                              result, nextId, peak, log, ptr, san, bytes, value>>
          ELSE IF TMReadAddr(overflow_checks, allocations, at, ty).res # "Ok"
          THEN /\ ReadEffect(at, ty)
               /\ UNCHANGED <<eval, overflow_checks, allocations, frames, result,
                              nextId, peak, log, ptr, san, bytes>>
          ELSE AssignEffect("deref write", DerefTarget(bytes, at), data,
                            Pointee(ty))

\* Operand::Copy(_local): read_from_place
UseLocal(local) ==
    /\ BodyRuns
    /\ local \in DOMAIN Top(frames).locals
    /\ IF Top(frames).locals[local].size = 0
       THEN /\ value' = <<>>
            /\ acc' = NoAcc
            /\ UNCHANGED <<status, calls>>
       ELSE ReadEffect(LocalAddress(Top(frames), local), Top(frames).locals[local])
    /\ UNCHANGED <<eval, overflow_checks, allocations, frames, result, nextId, peak,
                   log, ptr, san, bytes>>

\* TerminatorKind::Return: read_from_place(local 0) is what the body returns
ReturnLocal0 ==
    /\ BodyRuns
    /\ LET ty == Top(frames).locals[1]
           at == LocalAddress(Top(frames), 1)
           r == TMReadAddr(overflow_checks, allocations, at, ty)
           returned == [calls EXCEPT ![Len(calls)].pending = "ret"]
       IN IF ty.size = 0
          THEN /\ value' = <<>>
               /\ acc' = NoAcc
               /\ calls' = returned
               /\ UNCHANGED status
          ELSE /\ acc' = [op |-> "read", address |-> at, ty |-> ty,
                          len |-> ty.size, res |-> r.res,
                          consulted |-> r.consulted]
               /\ value' = IF r.res = "Ok" THEN ReadBytes(bytes, at, ty.size)
                           ELSE <<>>
               /\ status' = IF r.res = "panic" THEN "aborted" ELSE status
               /\ calls' = IF r.res = "panic" THEN calls
                           ELSE IF r.res = "Ok" THEN returned
                           ELSE Propagate(r.res)
    /\ UNCHANGED <<eval, overflow_checks, allocations, frames, result, nextId, peak,
                   log, ptr, san, bytes>>

\* The body has ended: with_stack_frame cleans up and hands the result on
BodyEnded ==
    /\ calls # <<>>
    /\ Top(calls).pending # "none"
    /\ Return

\* invoke_fn of the entry function: the one call these statements run in
\* (calls made by the body are the Call terminator's)
EnterEntry(body, base) ==
    /\ status = "ready"
    /\ Enter(body, base)

ProgNext ==
    \/ \E body \in ProgBodies, base \in Addr : EnterEntry(body, base)
    \/ \E local \in 1..3, data \in Datas : AssignConst(local, data)
    \/ \E dst \in 1..3, src \in 1..3 : AssignRef(dst, src)
    \/ \E r \in 1..3, data \in Datas : AssignDeref(r, data)
    \/ \E local \in 1..3 : UseLocal(local)
    \/ ReturnLocal0
    \/ BodyEnded

ProgSpec == Init /\ [][ProgNext]_vars

----------------------------------------------------------------------------
(* read_from_place (interpreter/place.rs) on a local or on the pointee of a    *)
(* pointer held in a local                                                     *)

\* Bodies with a return slot, a variable and a reference to a variable, of a
\* zero-sized type and of u8
PlaceBodies == { <<UnitTy, UnitTy, RefUnitTy>>, <<U8Ty, U8Ty, RefU8Ty>> }

\* The places _local and (*_local)
Places == [local : 1..3, deref : BOOLEAN]

\* place.ty(self.locals())
PlaceTy(frame, place) ==
    IF place.deref THEN Pointee(frame.locals[place.local])
    ELSE frame.locals[place.local]

\* resolve_place_addr, then memory.read_addr(addr, place_ty): the result, the
\* Value and the addresses read on the way
ResolveAndRead(checks, allocs, mem, frame, place) ==
    LET ty == PlaceTy(frame, place)
        at == LocalAddress(frame, place.local)
        read(address, t, before) ==
            LET r == TMReadAddr(checks, allocs, address, t) IN
            [res |-> r.res,
             value |-> IF r.res = "Ok" THEN ReadBytes(mem, address, t.size)
                       ELSE <<>>,
             reads |-> Append(before, address)]
    IN IF ~place.deref THEN read(at, ty, <<>>)
       ELSE LET p == TMReadAddr(checks, allocs, at, frame.locals[place.local])
            IN IF p.res # "Ok"
               THEN [res |-> p.res, value |-> <<>>, reads |-> <<at>>]
               ELSE read(DerefTarget(mem, at), ty, <<at>>)

\* Faulty read_from_place: a zero-sized place is resolved and read like any
\* other
ReadFromPlaceAlwaysResolves(checks, allocs, mem, frame, place) ==
    ResolveAndRead(checks, allocs, mem, frame, place)

\* read_from_place: the unit value for a place of size 0, else the read
ReadFromPlace(checks, allocs, mem, frame, place) ==
    IF PlaceTy(frame, place).size = 0
    THEN [res |-> "Ok", value |-> <<>>, reads |-> <<>>]
    ELSE ResolveAndRead(checks, allocs, mem, frame, place)

\* Operand::Copy(place) | Operand::Move(place) in the running body
UsePlace(place) ==
    /\ BodyRuns
    /\ place.local \in DOMAIN Top(frames).locals
    /\ place.deref => IsPointer(Top(frames).locals[place.local])
    /\ LET out == ReadFromPlace(overflow_checks, allocations, bytes, Top(frames),
                                place)
       IN /\ eval' = [op |-> "read_from_place", place |-> place,
                      ty |-> PlaceTy(Top(frames), place), outcome |-> out]
          /\ value' = out.value
          /\ status' = IF out.res = "panic" THEN "aborted" ELSE status
          /\ calls' = IF out.res = "panic" THEN calls ELSE Propagate(out.res)
    /\ acc' = NoAcc
    /\ UNCHANGED <<overflow_checks, allocations, frames, result, nextId, peak, log,
                   ptr, san, bytes>>

PlaceNext ==
    \/ \E body \in PlaceBodies, base \in Addr : EnterEntry(body, base)
    \/ \E local \in 1..3, data \in Datas : AssignConst(local, data)
    \/ \E place \in Places : UsePlace(place)

PlaceSpec == Init /\ [][PlaceNext]_vars

----------------------------------------------------------------------------
(* The interpreter's terminators (interpreter/function.rs). Integer widths are *)
(* scaled down: NarrowBits for the declared type of an operand (i8, u8),       *)
(* WideBits for the 128-bit integers every integer Value is stored as.         *)

\* The rest of the interpreter's state, which an evaluation leaves alone
memory == <<overflow_checks, allocations, frames, calls, status, result, nextId,
            peak, log, ptr, acc, san, bytes, value>>

\* iN::from_le_bytes: the two's complement reading of a bit pattern
ToSigned(pat, bits) == IF pat >= 2 ^ (bits - 1) THEN pat - 2 ^ bits ELSE pat

\* to_le_bytes: the bit pattern of an integer at a width
ToPattern(n, bits) == n % 2 ^ bits

\* Value::from_i128 / Value::from_u128: the 16 bytes of the wide integer
WideValue(pat) == [len |-> "wide", pat |-> pat]

\* Value::from_bool: one byte
BoolValue(b) == [len |-> "one", pat |-> IF b THEN 1 ELSE 0]

\* The scalar constants of a body: MIR type and raw bytes at the declared width
ScalarConsts ==
    [ty : {"int", "uint"}, raw : 0..(2 ^ NarrowBits - 1)]
        \cup [ty : {"bool"}, raw : {0, 1}]

\* evaluate_constant
EvaluateConstant(c) ==
    IF c.ty = "int"
    THEN WideValue(ToPattern(ToSigned(c.raw, NarrowBits), WideBits))
    ELSE IF c.ty = "uint"
    THEN WideValue(c.raw)
    ELSE BoolValue(c.raw # 0)

\* discr_int of SwitchInt: as_i128() as u128 for a 16-byte value, else as_bool
DiscrInt(v) ==
    IF v.len = "wide" THEN v.pat
    ELSE IF v.pat # 0 THEN 1 ELSE 0

\* Faulty lookup: the branches are never searched
FindBranchOtherwise(branches, i, d, otherwise) == otherwise

\* targets.branches().find(|(value, _)| *value == discr_int)
\*     .unwrap_or_else(|| targets.otherwise())
RECURSIVE FindBranch(_, _, _, _)
FindBranch(branches, i, d, otherwise) ==
    IF i > Len(branches) THEN otherwise
    ELSE IF branches[i][1] = d THEN branches[i][2]
    ELSE FindBranch(branches, i + 1, d, otherwise)

\* Basic blocks a SwitchInt may continue at
Blocks == {"BB_A", "BB_B"}

\* SwitchTargets: up to two branches with distinct values of the declared
\* width, each with its target block
BranchTables ==
    { b \in UNION { [1..n -> (0..(2 ^ NarrowBits - 1)) \X Blocks] : n \in 0..2 } :
        \A i, j \in DOMAIN b : i # j => b[i][1] # b[j][1] }

\* Nothing has been evaluated yet: a behaviour of a function-level
\* specification evaluates one terminator or operator on operands of its choice
Unevaluated == eval = NoEval

\* TerminatorKind::SwitchInt { discr, targets } on a constant operand
SwitchInt(discr, branches, otherwise) ==
    /\ Unevaluated
    /\ eval' = [op |-> "SwitchInt", discr |-> discr, branches |-> branches,
                otherwise |-> otherwise,
                target |-> FindBranch(branches, 1,
                                      DiscrInt(EvaluateConstant(discr)),
                                      otherwise)]
    /\ UNCHANGED memory

SwitchNext ==
    \E discr \in ScalarConsts, branches \in BranchTables, otherwise \in Blocks :
        SwitchInt(discr, branches, otherwise)

SwitchSpec == Init /\ [][SwitchNext]_vars

----------------------------------------------------------------------------
(* execute_terminator: the terminators other than Return, SwitchInt and Call *)

\* Diagnostic messages an "Assert" terminator may carry
Messages == {"attempt to divide by zero", "attempt to add with overflow",
             "index out of bounds"}

\* Terminators with a condition, an expected value, a target and a message
\* (conditions are boolean constants; Goto and Drop use the target only)
Terminators ==
    [kind : {"Goto", "Assert", "Drop"}, cond : BOOLEAN, expected : BOOLEAN,
     target : Blocks, msg : Messages]

\* execute_terminator on a terminator that is not Return, SwitchInt or Call:
\* Goto continues at its target, every other kind is unsupported
TerminatorOutcome(t) ==
    IF t.kind = "Goto"
    THEN [flow |-> "Continue", block |-> t.target, msg |-> ""]
    ELSE [flow |-> "Err", block |-> "", msg |-> "Unsupported terminator"]

ExecuteTerminator(t) ==
    /\ Unevaluated
    /\ eval' = [op |-> "terminator", terminator |-> t,
                outcome |-> TerminatorOutcome(t)]
    /\ UNCHANGED memory

TermNext == \E t \in Terminators : ExecuteTerminator(t)

TermSpec == Init /\ [][TermNext]_vars

----------------------------------------------------------------------------
(* Binary and unary operators (interpreter/rvalue.rs). A Value is a byte       *)
(* string; here it is its length in bits and its bit pattern.                  *)

\* The integer types: i8 .. i128, isize and u8 .. u128, usize, scaled down to
\* a narrow and a wide width of each signedness
IntTypes == [signed : BOOLEAN, bits : {NarrowBits, WideBits}]

MinOf(ty) == IF ty.signed THEN -(2 ^ (ty.bits - 1)) ELSE 0

MaxOf(ty) == IF ty.signed THEN 2 ^ (ty.bits - 1) - 1 ELSE 2 ^ ty.bits - 1

\* The integer Values of either width
IntValues ==
    UNION { [len : {b}, pat : 0..(2 ^ b - 1)] : b \in {NarrowBits, WideBits} }

NoValue == [len |-> 0, pat |-> 0]

\* Value::as_type::<T> of a value of T's size: T::read_from_bytes
AsType(v, ty) == IF ty.signed THEN ToSigned(v.pat, ty.bits) ELSE v.pat

\* Value::from_type
FromType(n, ty) == [len |-> ty.bits, pat |-> ToPattern(n, ty.bits)]

Abs(n) == IF n < 0 THEN -n ELSE n

\* Faulty division: rounds toward negative infinity
FloorDiv(a, b) ==
    IF b < 0 THEN (-a) \div (-b) ELSE a \div b

\* `/` of the host's integers: the quotient rounded toward zero
TruncDiv(a, b) ==
    IF (a < 0) = (b < 0) THEN Abs(a) \div Abs(b) ELSE -(Abs(a) \div Abs(b))

\* The operation on mathematical integers
Exact(op, a, b) ==
    IF op = "Add" THEN a + b
    ELSE IF op = "Sub" THEN a - b
    ELSE IF op = "Mul" THEN a * b
    ELSE TruncDiv(a, b)

\* Faulty arithmetic: the result is reduced modulo the width of the type
WrappingArith(op, a, b, ty) ==
    <<AsType(FromType(Exact(op, a, b), ty), ty)>>

\* checked_add / checked_sub / checked_mul / checked_div: Some(result) when
\* the type can represent it, None otherwise
CheckedArith(op, a, b, ty) ==
    LET n == Exact(op, a, b) IN
    IF MinOf(ty) <= n /\ n <= MaxOf(ty) THEN <<n>> ELSE <<>>

BinOps == {"Add", "Sub", "Mul", "Div", "Rem", "BitAnd", "BitOr", "BitXor",
           "Eq", "Ne", "Lt", "Le", "Gt", "Ge"}

\* Value::from_bool: one byte, 1 or 0
FromBool(b) == [len |-> NarrowBits, pat |-> IF b THEN 1 ELSE 0]

\* Value::as_bool: Some(byte # 0) of a one-byte value, None of any other
AsBool(v) == IF v.len = NarrowBits THEN <<v.pat # 0>> ELSE <<>>

\* `&`, `|` and `^` of the host on two bit patterns of the same width
RECURSIVE Bitwise(_, _, _, _)
Bitwise(op, a, b, bits) ==
    IF bits = 0 THEN 0
    ELSE LET x == a % 2
             y == b % 2
             z == IF op = "BitAnd" THEN x * y
                  ELSE IF op = "BitOr" THEN x + y - x * y
                  ELSE (x + y) % 2
         IN z + 2 * Bitwise(op, a \div 2, b \div 2, bits - 1)

\* left & right, left | right, left ^ right on two integers of type T
BitOpOf(op, left, right, ty) ==
    AsType([len |-> ty.bits,
            pat |-> Bitwise(op, ToPattern(left, ty.bits),
                            ToPattern(right, ty.bits), ty.bits)], ty)

\* Faulty comparison: every ordering is strict
CompareStrict(op, left, right) ==
    IF op \in {"Eq", "Ne"} THEN (left = right) = (op = "Eq")
    ELSE IF op \in {"Lt", "Le"} THEN left < right
    ELSE left > right

\* ==, !=, <, <=, >, >= of PartialEq / PartialOrd on two integers of type T
Compare(op, left, right) ==
    IF op = "Eq" THEN left = right
    ELSE IF op = "Ne" THEN left # right
    ELSE IF op = "Lt" THEN left < right
    ELSE IF op = "Le" THEN left <= right
    ELSE IF op = "Gt" THEN left > right
    ELSE left >= right

\* eval_int_binop::<T>
EvalIntBinop(op, ty, l, r) ==
    IF l.len # ty.bits \/ r.len # ty.bits
    THEN [res |-> "panic", msg |-> "unwrap on None", value |-> NoValue]
    ELSE LET left == AsType(l, ty)
             right == AsType(r, ty)
             checked == CheckedArith(op, left, right, ty)
         IN IF op \in {"Add", "Sub", "Mul"}
            THEN IF checked = <<>>
                 THEN [res |-> "Err", msg |-> "overflow", value |-> NoValue]
                 ELSE [res |-> "Ok", msg |-> "", value |-> FromType(checked[1], ty)]
            ELSE IF op = "Div"
            THEN IF right = 0
                 THEN [res |-> "Err", msg |-> "Division by zero",
                       value |-> NoValue]
                 ELSE IF checked = <<>>
                 THEN [res |-> "Err", msg |-> "overflow", value |-> NoValue]
                 ELSE [res |-> "Ok", msg |-> "", value |-> FromType(checked[1], ty)]
            ELSE IF op \in {"BitAnd", "BitOr", "BitXor"}
            THEN [res |-> "Ok", msg |-> "",
                  value |-> FromType(BitOpOf(op, left, right, ty), ty)]
            ELSE IF op \in {"Eq", "Ne", "Lt", "Le", "Gt", "Ge"}
            THEN [res |-> "Ok", msg |-> "",
                  value |-> FromBool(Compare(op, left, right))]
            ELSE [res |-> "Err", msg |-> "Unsupported integer binary operation",
                  value |-> NoValue]

\* Rvalue::BinaryOp(op, l, r) on integer operands of static type ty
BinaryOp(op, ty, l, r) ==
    /\ Unevaluated
    /\ eval' = [op |-> "binop", bin |-> op, ty |-> ty, l |-> l, r |-> r,
                outcome |-> EvalIntBinop(op, ty, l, r)]
    /\ UNCHANGED memory

\* eval_bool_binop
EvalBoolBinop(op, l, r) ==
    IF AsBool(l) = <<>> \/ AsBool(r) = <<>>
    THEN [res |-> "panic", msg |-> "unwrap on None", value |-> NoValue]
    ELSE LET left == AsBool(l)[1]
             right == AsBool(r)[1]
         IN IF op = "BitAnd"
            THEN [res |-> "Ok", msg |-> "", value |-> FromBool(left /\ right)]
            ELSE IF op = "BitOr"
            THEN [res |-> "Ok", msg |-> "", value |-> FromBool(left \/ right)]
            ELSE IF op = "Eq"
            THEN [res |-> "Ok", msg |-> "", value |-> FromBool(left = right)]
            ELSE IF op = "Ne"
            THEN [res |-> "Ok", msg |-> "", value |-> FromBool(left # right)]
            ELSE [res |-> "Err", msg |-> "Unsupported boolean binary operation",
                  value |-> NoValue]

\* Rvalue::BinaryOp(op, l, r) on operands of static type bool
BoolBinaryOp(op, l, r) ==
    /\ Unevaluated
    /\ eval' = [op |-> "boolbinop", bin |-> op, l |-> l, r |-> r,
                outcome |-> EvalBoolBinop(op, l, r)]
    /\ UNCHANGED memory

UnOps == {"Neg", "Not", "PtrMetadata"}

\* checked_neg: Some(-n) when the type can represent it, None otherwise
CheckedNeg(n, ty) ==
    IF MinOf(ty) <= -n /\ -n <= MaxOf(ty) THEN <<-n>> ELSE <<>>

\* eval_int_unop::<T>
EvalIntUnop(op, ty, v) ==
    IF v.len # ty.bits
    THEN [res |-> "panic", msg |-> "unwrap on None", value |-> NoValue]
    ELSE LET val == AsType(v, ty)
             checked == CheckedNeg(val, ty)
         IN IF op = "Neg"
            THEN IF checked = <<>>
                 THEN [res |-> "Err", msg |-> "Integer overflow in negation",
                       value |-> NoValue]
                 ELSE [res |-> "Ok", msg |-> "", value |-> FromType(checked[1], ty)]
            ELSE [res |-> "Err", msg |-> "Unsupported integer unary operation",
                  value |-> NoValue]

\* eval_bool_unop
EvalBoolUnop(op, v) ==
    IF AsBool(v) = <<>>
    THEN [res |-> "panic", msg |-> "unwrap on None", value |-> NoValue]
    ELSE IF op = "Not"
    THEN [res |-> "Ok", msg |-> "", value |-> FromBool(~AsBool(v)[1])]
    ELSE [res |-> "Err", msg |-> "Unsupported boolean unary operation",
          value |-> NoValue]

\* UnaryEval::eval for an integer result type
UnaryEval(op, ty, v) ==
    IF ty.signed THEN EvalIntUnop(op, ty, v)
    ELSE [res |-> "Err",
          msg |-> "Unary operations on unsigned integers not supported",
          value |-> NoValue]

\* Rvalue::UnaryOp(op, v) with an integer result type ty
UnaryOp(op, ty, v) ==
    /\ Unevaluated
    /\ eval' = [op |-> "unop", un |-> op, ty |-> ty, v |-> v,
                outcome |-> UnaryEval(op, ty, v)]
    /\ UNCHANGED memory

\* Rvalue::UnaryOp(op, v) with result type bool
BoolUnaryOp(op, v) ==
    /\ Unevaluated
    /\ eval' = [op |-> "boolunop", un |-> op, v |-> v,
                outcome |-> EvalBoolUnop(op, v)]
    /\ UNCHANGED memory

\* One rvalue is evaluated in each behaviour
BinNext ==
    \/ Unevaluated /\ \E op \in BinOps, ty \in IntTypes :
          \E l \in IntValues, r \in IntValues : BinaryOp(op, ty, l, r)
    \/ Unevaluated /\ \E op \in BinOps, l \in IntValues, r \in IntValues :
          BoolBinaryOp(op, l, r)
    \/ Unevaluated /\ \E op \in UnOps, ty \in IntTypes, v \in IntValues :
          UnaryOp(op, ty, v)
    \/ Unevaluated /\ \E op \in UnOps, v \in IntValues : BoolUnaryOp(op, v)

BinSpec == Init /\ [][BinNext]_vars

----------------------------------------------------------------------------
(* FnInterpreter (interpreter/function.rs): one interpreter per call, each     *)
(* with its own frame of optional values. eval.stack holds the interpreters   *)
(* of the running calls, the entry function's first. A slot is <<>> (None) or  *)
(* <<v>> (Some(v)); locals are numbered from 0 as in MIR.                      *)

\* The functions of the interpreted crate: number of locals and of arguments
Fns == { [locals |-> 2, args |-> 0],
         [locals |-> 2, args |-> 1] }

\* The integer constants the interpreted bodies use
IntConsts == {0, 1}

\* Operand::Constant and Operand::Copy / Operand::Move of a local
OperandsOf(frame) ==
    [kind : {"const"}, n : IntConsts] \cup [kind : {"copy"}, n : DOMAIN frame]

\* evaluate_operand: the value, or <<>> when the local read is uninitialized
EvaluateOperand(frame, o) ==
    IF o.kind = "const" THEN <<o.n>> ELSE frame[o.n]

\* FnInterpreter::new: vec![None; frame_size]
NewFrame(fn) == [l \in 0..(fn.locals - 1) |-> <<>>]

\* Faulty argument passing: argument i goes to local i
BindArgsFromZero(frame, args) ==
    [l \in DOMAIN frame |-> IF l < Len(args) THEN <<args[l + 1]>> ELSE frame[l]]

\* FnInterpreter::run: self.frame[i + 1] = Some(arg)
BindArgs(frame, args) ==
    [l \in DOMAIN frame |->
        IF 1 <= l /\ l <= Len(args) THEN <<args[l]>> ELSE frame[l]]

\* A new interpreter about to run its first block; dest and target are those
\* of the Call terminator it is executing, if any
Interpreter(fn, args) ==
    [fn |-> fn, frame |-> BindArgs(NewFrame(fn), args), block |-> "BB_A",
     dest |-> 0, target |-> "BB_A"]

\* An error leaves every interpreter with `?`: the entry invocation fails
Failed(step) == [op |-> "failed", stack |-> <<>>, step |-> step]

Running == eval.op = "run" /\ eval.stack # <<>>

\* run_function: FnInterpreter::new(entry) and run with no arguments
RunEntry(fn) ==
    /\ Unevaluated
    /\ fn.args = 0
    /\ eval' = [op |-> "run", stack |-> <<Interpreter(fn, <<>>)>>,
                step |-> "start"]
    /\ UNCHANGED memory

\* StatementKind::Assign(_local, Rvalue::Use(operand)) in the running call
AssignUse(local, o) ==
    /\ Running
    /\ LET top == Top(eval.stack)
           v == EvaluateOperand(top.frame, o)
       IN /\ local \in DOMAIN top.frame
          /\ o \in OperandsOf(top.frame)
          /\ eval' = IF v = <<>>
                     THEN Failed("assign")
                     ELSE [eval EXCEPT
                             !.stack[Len(eval.stack)].frame[local] = v,
                             !.step = "assign"]
    /\ UNCHANGED memory

\* TerminatorKind::Call up to the callee's first block: execute_call evaluates
\* the arguments, creates the callee's interpreter and starts run
Call(fn, args, destination, target) ==
    /\ Running
    /\ Len(eval.stack) < MaxDepth
    /\ LET top == Top(eval.stack)
           arg_values == [i \in DOMAIN args |-> EvaluateOperand(top.frame, args[i])]
       IN /\ Len(args) = fn.args
          /\ \A i \in DOMAIN args : args[i] \in OperandsOf(top.frame)
          /\ destination \in DOMAIN top.frame
          /\ eval' =
               IF \E i \in DOMAIN args : arg_values[i] = <<>>
               THEN Failed("call")
               ELSE [op |-> "run",
                     stack |-> Append(
                        [eval.stack EXCEPT ![Len(eval.stack)] =
                            [@ EXCEPT !.dest = destination, !.target = target]],
                        Interpreter(fn, [i \in DOMAIN args |-> arg_values[i][1]])),
                     step |-> "call"]
    /\ UNCHANGED memory

\* TerminatorKind::Return in the running call: run returns local 0; in the
\* caller execute_call assigns it to the destination and control continues at
\* the target
ReturnValue ==
    /\ Running
    /\ LET n == Len(eval.stack)
           v == Top(eval.stack).frame[0]
           caller == eval.stack[n - 1]
       IN eval' =
            IF v = <<>> THEN Failed("return")
            ELSE IF n = 1
            THEN [op |-> "returned", stack |-> <<>>, step |-> "return",
                  ret |-> v]
            ELSE [op |-> "run",
                  stack |-> [Front(eval.stack) EXCEPT ![n - 1] =
                               [caller EXCEPT !.frame[caller.dest] = v,
                                              !.block = caller.target]],
                  step |-> "return"]
    /\ UNCHANGED memory

FnNext ==
    \/ \E fn \in Fns : RunEntry(fn)
    \/ \E local \in 0..1, kind \in {"const", "copy"}, n \in IntConsts :
          AssignUse(local, [kind |-> kind, n |-> n])
    \/ \E fn \in Fns, destination \in 0..1, target \in Blocks :
          \E args \in [1..fn.args -> [kind : {"const", "copy"}, n : IntConsts]] :
             Call(fn, args, destination, target)
    \/ ReturnValue

FnSpec == Init /\ [][FnNext]_vars

----------------------------------------------------------------------------
(* execute_statement (interpreter/function.rs) in the entry call, and          *)
(* evaluate_rvalue's dispatch on the kind of the rvalue (interpreter/rvalue.rs) *)

\* The statement kinds of MIR: Assign, the three no-ops and three others
StatementKinds ==
    {"Assign", "StorageLive", "StorageDead", "Nop", "SetDiscriminant", "Retag",
     "Intrinsic"}

\* The rvalue kinds of the statements: Use, and three that evaluate_rvalue has
\* no arm for
RvalueKinds == {"Use", "CheckedBinaryOp", "CopyForDeref", "Discriminant"}

\* The statements of a body with two locals: an Assign has a destination
\* local and an rvalue on one operand
Statements ==
    [kind : {"Assign"}, local : 0..1, rv : RvalueKinds,
     o : [kind : {"const", "copy"}, n : IntConsts]]
        \cup [kind : StatementKinds \ {"Assign"}, local : {0}, rv : {"Use"},
              o : {[kind |-> "const", n |-> 0]}]

\* evaluate_rvalue: Rvalue::Use evaluates its operand, a kind without an arm
\* is unsupported
EvaluateRvalue(frame, rv, o) ==
    IF rv = "Use"
    THEN LET v == EvaluateOperand(frame, o)
         IN IF v = <<>>
            THEN [res |-> "Err", msg |-> "Uninitialized local", value |-> 0]
            ELSE [res |-> "Ok", msg |-> "", value |-> v[1]]
    ELSE [res |-> "Err", msg |-> "Unsupported rvalue", value |-> 0]

\* Faulty execute_statement: every statement is skipped
StatementSkipped(frame, stmt) ==
    [res |-> "Ok", msg |-> "", frame |-> frame]

\* execute_statement: the result and the frame as the statement leaves it
StatementOutcome(frame, stmt) ==
    IF stmt.kind = "Assign"
    THEN LET rvalue == EvaluateRvalue(frame, stmt.rv, stmt.o)
         IN IF rvalue.res = "Err"
            THEN [res |-> "Err", msg |-> rvalue.msg, frame |-> frame]
            ELSE [res |-> "Ok", msg |-> "",
                  frame |-> [frame EXCEPT ![stmt.local] = <<rvalue.value>>]]
    ELSE IF stmt.kind \in {"StorageLive", "StorageDead", "Nop"}
    THEN [res |-> "Ok", msg |-> "", frame |-> frame]
    ELSE [res |-> "Err", msg |-> "Unsupported statement", frame |-> frame]

\* One statement of the current block of the entry call: an error ends run
\* with `?`; frame is the frame as the failing statement left it
ExecuteStatement(stmt) ==
    /\ Running
    /\ LET top == Top(eval.stack)
           out == StatementOutcome(top.frame, stmt)
       IN eval' =
            IF out.res = "Err"
            THEN [op |-> "failed", stack |-> <<>>, step |-> "statement",
                  stmt |-> stmt, msg |-> out.msg, frame |-> out.frame]
            ELSE [op |-> "run",
                  stack |-> [eval.stack EXCEPT ![Len(eval.stack)].frame = out.frame],
                  step |-> "statement", stmt |-> stmt]
    /\ UNCHANGED memory

StmtNext ==
    \/ \E fn \in Fns : RunEntry(fn)
    \/ \E stmt \in Statements : ExecuteStatement(stmt)
    \/ \E t \in Terminators : ExecuteTerminator(t)

StmtSpec == Init /\ [][StmtNext]_vars

----------------------------------------------------------------------------
(* A pointer to a caller's local handed to a callee: the caller takes the      *)
(* reference, the Call copies it into the callee's argument local, the callee  *)
(* reads and writes through it and returns                                     *)

\* The callers: a return slot, a variable and a reference to it
CallerBodies == { <<U8Ty, U8Ty, RefU8Ty>>, <<UnitTy, U16Ty, RefU16Ty>> }

\* The host allocator (malloc behind vec!) returns blocks aligned for every
\* scalar type: here, for the largest alignment of a local
MallocAlign == 2

AlignedAddr == { b \in Addr : b % MallocAlign = 0 }

\* The lowest aligned block that is free
FirstAligned(fs, size) ==
    { b \in FreshBlocks(fs, size) \cap AlignedAddr :
        \A c \in FreshBlocks(fs, size) \cap AlignedAddr : b <= c }

\* MIR is typed: _dst = &_src needs _dst: &T and _src: T
RefIsTyped(dst, src) ==
    /\ BodyRuns
    /\ {dst, src} \subseteq DOMAIN Top(frames).locals
    /\ IsPointer(Top(frames).locals[dst])
    /\ Pointee(Top(frames).locals[dst]) = Top(frames).locals[src]

\* (*_r) = const data needs _r: &T and data of the size of T
DerefIsTyped(r, data) ==
    /\ BodyRuns
    /\ r \in DOMAIN Top(frames).locals
    /\ IsPointer(Top(frames).locals[r])
    /\ Len(data) = Pointee(Top(frames).locals[r]).size

\* The callees: a unit return slot and the pointer argument _1
PtrCalleeBodies == { <<UnitTy, RefU8Ty>>, <<UnitTy, RefU16Ty>> }

\* TerminatorKind::Call { func, args: [Copy(_arg)], .. }: the argument is
\* evaluated in the caller, with_stack_frame pushes the callee's frame and run
\* stores the argument in the callee's local 1
CallWithArg(body, base, arg) ==
    /\ BodyRuns
    /\ Len(calls) < MaxDepth
    /\ nextId <= MaxCalls
    /\ arg \in DOMAIN Top(frames).locals
    /\ body[2] = Top(frames).locals[arg]
    /\ LET layout == StackFrameNew(body)
           frame == [id |-> nextId, addr |-> base, size |-> layout.size,
                     offsets |-> layout.offsets, locals |-> body,
                     written |-> {2}]
           at == LocalAddress(Top(frames), arg)
           r == TMReadAddr(overflow_checks, allocations, at, body[2])
       IN /\ base \in FreshBlocks(frames, layout.size)
          /\ IF r.res # "Ok"
             THEN /\ ReadEffect(at, body[2])
                  /\ UNCHANGED <<allocations, frames, log, nextId, peak, bytes>>
             ELSE IF RegisterAborts(allocations, base, layout.size)
             THEN /\ status' = "aborted"
                  /\ acc' = NoAcc
                  /\ UNCHANGED <<allocations, frames, calls, log, nextId, peak,
                                 bytes, value>>
             ELSE /\ allocations' = RegisterAlloc(allocations, base, layout.size)
                  /\ frames' = Append(frames, frame)
                  /\ calls' = Append(calls, [id |-> nextId, address |-> base,
                                             pending |-> "none"])
                  /\ log' = Append(log, [pops |-> 0, deregs |-> 0,
                                         outcome |-> "live"])
                  /\ nextId' = nextId + 1
                  /\ peak' = IF Len(calls) + 1 > peak THEN Len(calls) + 1 ELSE peak
                  /\ acc' = NoAcc
                  /\ bytes' = CopyBytes(ZeroFill(bytes, base, layout.size),
                                        base + layout.offsets[2],
                                        ReadBytes(bytes, at, body[2].size))
                  /\ value' = <<>>
                  /\ UNCHANGED status
    /\ UNCHANGED <<eval, overflow_checks, result, ptr, san>>

PtrNext ==
    \/ \E body \in CallerBodies, base \in AlignedAddr : EnterEntry(body, base)
    \/ \E dst \in 1..3, src \in 1..3 : RefIsTyped(dst, src) /\ AssignRef(dst, src)
    \/ \E body \in PtrCalleeBodies, arg \in 1..3 :
          \E base \in FirstAligned(frames, StackFrameNew(body).size) :
             CallWithArg(body, base, arg)
    \/ \E r \in 1..3, data \in Datas : DerefIsTyped(r, data) /\ AssignDeref(r, data)
    \/ \E place \in Places : UsePlace(place)
    \/ ReturnLocal0
    \/ BodyEnded

PtrSpec == Init /\ [][PtrNext]_vars

----------------------------------------------------------------------------
(* ProjectionElem::Index (interpreter/place.rs): _array[_index] as the place   *)
(* of a read or of a write                                                     *)

\* usize is one cell wide, as a pointer is
UsizeTy == [name |-> "usize", size |-> 1, align |-> 1]

ArrU8x1Ty == [name |-> "[u8; 1]", size |-> 1, align |-> 1]
ArrU8x2Ty == [name |-> "[u8; 2]", size |-> 2, align |-> 1]

\* TyKind::RigidTy(RigidTy::Array(elem_ty, len))
IsArray(ty) == ty \in {ArrU8x1Ty, ArrU8x2Ty}

ElementTy(ty) == U8Ty

ArrayLen(ty) == IF ty = ArrU8x1Ty THEN 1 ELSE 2

\* FieldsShape::Array { stride, .. }
Stride(ty) == ElementTy(ty).size

\* A return slot, an array, a local after it and an index; and a body whose
\* array is its last local
IndexBodies == { <<U8Ty, ArrU8x1Ty, U8Ty, UsizeTy>>, <<U8Ty, UsizeTy, ArrU8x2Ty>> }

\* StackFrame::read_local: the bytes from the local's offset to the next
\* local's offset, or to the end of the buffer
ReadLocal(mem, frame, local) ==
    LET offset == frame.offsets[local]
        next_offset == IF local + 1 <= Len(frame.offsets)
                       THEN frame.offsets[local + 1]
                       ELSE frame.size
    IN ReadBytes(mem, frame.addr + offset, next_offset - offset)

\* resolve_place_addr on _array[_index]: current_addr + index * stride
IndexAddress(mem, frame, array, index_local) ==
    LET index_value == ReadLocal(mem, frame, index_local)
        ty == frame.locals[array]
    IN IF Len(index_value) # UsizeTy.size \/ ~IsArray(ty)
       THEN [res |-> "Err", index |-> 0, address |-> 0, ty |-> UnitTy]
       ELSE [res |-> "Ok", index |-> index_value[1],
             address |-> LocalAddress(frame, array) + index_value[1] * Stride(ty),
             ty |-> ElementTy(ty)]

\* What the last access through an Index projection was and how it ended
Indexed(access, array, place, res) ==
    [op |-> "index", access |-> access, array |-> array,
     len |-> ArrayLen(Top(frames).locals[array]), index |-> place.index,
     address |-> place.address, res |-> res]

\* Operand::Copy(_array[_index]): read_from_place
UseIndex(array, index_local) ==
    /\ BodyRuns
    /\ {array, index_local} \subseteq DOMAIN Top(frames).locals
    /\ IsArray(Top(frames).locals[array])
    /\ LET place == IndexAddress(bytes, Top(frames), array, index_local)
       IN IF place.res = "Err"
          THEN /\ calls' = Propagate("Err")
               /\ acc' = NoAcc
               /\ eval' = Indexed("read", array, place, "Err")
               /\ UNCHANGED <<status, value>>
          ELSE /\ ReadEffect(place.address, place.ty)
               /\ eval' = Indexed("read", array, place,
                                  TMReadAddr(overflow_checks, allocations,
                                             place.address, place.ty).res)
    /\ UNCHANGED <<overflow_checks, allocations, frames, result, nextId, peak, log,
                   ptr, san, bytes>>

\* StatementKind::Assign(_array[_index], Rvalue::Use(const data))
AssignIndex(array, index_local, data) ==
    /\ BodyRuns
    /\ {array, index_local} \subseteq DOMAIN Top(frames).locals
    /\ IsArray(Top(frames).locals[array])
    /\ Len(data) = ElementTy(Top(frames).locals[array]).size
    /\ LET place == IndexAddress(bytes, Top(frames), array, index_local)
           r == TMWriteAddr(overflow_checks, allocations, place.address,
                            Len(data), place.ty)
       IN IF place.res = "Err"
          THEN /\ calls' = Propagate("Err")
               /\ acc' = NoAcc
               /\ eval' = Indexed("write", array, place, "Err")
               /\ UNCHANGED <<status, bytes, frames>>
          ELSE /\ WriteEffect("index write", place.address, data, place.ty)
               /\ frames' = IF r.res = "Ok"
                            THEN MarkWritten(frames, place.address, Len(data))
                            ELSE frames
               /\ eval' = Indexed("write", array, place, r.res)
    /\ value' = <<>>
    /\ UNCHANGED <<overflow_checks, allocations, result, nextId, peak, log, ptr,
                   san>>

IndexNext ==
    \/ \E body \in IndexBodies, base \in Addr : EnterEntry(body, base)
    \/ \E local \in 1..4, data \in Datas : AssignConst(local, data)
    \/ \E array \in 1..4, index_local \in 1..4 : UseIndex(array, index_local)
    \/ \E array \in 1..4, index_local \in 1..4, data \in Datas :
          AssignIndex(array, index_local, data)

IndexSpec == Init /\ [][IndexNext]_vars

----------------------------------------------------------------------------
(* FnInterpreter::run (interpreter/function.rs): the blocks of a body, their   *)
(* statements in order and then the terminator; calls nest and an error        *)
(* leaves every run of the chain through `?`                                   *)

\* Indices of the basic blocks of a body; run starts at the first
RunBlocks == {1, 2}

\* _0 = const 1, and a statement kind execute_statement has no arm for
RunStatements == {"Assign", "Unsupported"}

StatementLists == UNION { [1..n -> RunStatements] : n \in 0..2 }

\* The functions a Call terminator can name
Callees == {"ok", "bad", "mid", "spin"}

\* Return, Goto { target }, Call { func, destination: _1, target } and a kind
\* execute_terminator has no arm for
RunTerminators ==
    { t \in [kind : {"Return", "Goto", "Call", "Unsupported"},
             fn : Callees \cup {"-"}, target : RunBlocks] :
        /\ (t.kind = "Call") <=> (t.fn \in Callees)
        /\ t.kind \in {"Return", "Unsupported"} => t.target = 1 }

RunBodies ==
    [RunBlocks -> [statements : StatementLists, terminator : RunTerminators]]

ReturnBlock(statements) ==
    [statements |-> statements,
     terminator |-> [kind |-> "Return", fn |-> "-", target |-> 1]]

\* The bodies of the callees: one returns 1, one fails in a statement, one
\* calls the failing one, one loops on a Goto
CalleeBody(fn) ==
    IF fn = "ok" THEN [b \in RunBlocks |-> ReturnBlock(<<"Assign">>)]
    ELSE IF fn = "bad" THEN [b \in RunBlocks |-> ReturnBlock(<<"Unsupported">>)]
    ELSE IF fn = "mid"
    THEN [b \in RunBlocks |->
            IF b = 1
            THEN [statements |-> <<"Assign">>,
                  terminator |-> [kind |-> "Call", fn |-> "bad", target |-> 2]]
            ELSE ReturnBlock(<<>>)]
    ELSE [b \in RunBlocks |->
            [statements |-> <<>>,
             terminator |-> [kind |-> "Goto", fn |-> "-", target |-> 1]]]

BodyOf(entry, fn) == IF fn = "entry" THEN entry ELSE CalleeBody(fn)

\* FnInterpreter::new: frame of None, current_block 0. `ran` lists the
\* statements executed since the block was entered and `visited` the blocks
\* entered so far; `revisited` tells that one was entered twice.
NewActivation(fn) ==
    [fn |-> fn, current_block |-> 1, stmt |-> 1, frame |-> [l \in 0..1 |-> <<>>],
     ran |-> <<>>, visited |-> {1}, revisited |-> FALSE]

\* Faulty Continue: current_block is left as it was
ContinueAtSameBlock(act, next_block) ==
    [act EXCEPT !.stmt = 1, !.ran = <<>>,
                !.revisited = TRUE]

\* ControlFlow::Continue(next_block) => self.current_block = next_block
ContinueAt(act, next_block) ==
    [act EXCEPT !.current_block = next_block, !.stmt = 1, !.ran = <<>>,
                !.visited = @ \cup {next_block},
                !.revisited = @ \/ next_block \in act.visited]

\* Faulty execute_call: the callee's error is dropped, the destination is
\* written and control continues at the target
OnCalleeResultIgnoresError(caller, target, res) ==
    [act |-> ContinueAt([caller EXCEPT !.frame[1] =
                            IF res.ok THEN <<res.value>> ELSE <<0>>], target),
     err |-> ""]

\* execute_call after callee_interpreter.run: `?` on an error, else
\* assign_to_place(destination, result) and Continue(target)
OnCalleeResult(caller, target, res) ==
    IF res.ok
    THEN [act |-> ContinueAt([caller EXCEPT !.frame[1] = <<res.value>>], target),
          err |-> ""]
    ELSE [act |-> caller, err |-> res.msg]

\* run_function: FnInterpreter::new(entry) and run
RunBody(body) ==
    /\ Unevaluated
    /\ eval' = [op |-> "run", entry |-> body,
                stack |-> <<NewActivation("entry")>>, err |-> "", ret |-> <<>>]
    /\ UNCHANGED memory

\* No error is on its way out of the running call
Stepping == Running /\ eval.err = ""

CurrentBlock(act) == BodyOf(eval.entry, act.fn)[act.current_block]

SetTop(act) == [eval.stack EXCEPT ![Len(eval.stack)] = act]

\* execute_statement(current_block_idx, stmt_idx)?
RunStatement ==
    /\ Stepping
    /\ LET act == Top(eval.stack)
           i == act.stmt
       IN /\ i <= Len(CurrentBlock(act).statements)
          /\ eval' =
               IF CurrentBlock(act).statements[i] = "Assign"
               THEN [eval EXCEPT !.stack =
                        SetTop([act EXCEPT !.frame[0] = <<1>>, !.stmt = i + 1,
                                           !.ran = Append(@, i)])]
               ELSE [eval EXCEPT !.err = "Unsupported statement"]
    /\ UNCHANGED memory

\* The statements of the block are done and its terminator is of this kind
AtTerminator(kind) ==
    /\ Stepping
    /\ Top(eval.stack).stmt = Len(CurrentBlock(Top(eval.stack)).statements) + 1
    /\ CurrentBlock(Top(eval.stack)).terminator.kind = kind

\* run of the top call returns `res`: to execute_call of its caller, or as
\* the result of the entry invocation
RunReturns(res) ==
    LET n == Len(eval.stack) IN
    IF n = 1
    THEN [op |-> IF res.ok THEN "returned" ELSE "failed", entry |-> eval.entry,
          stack |-> <<>>, err |-> IF res.ok THEN "" ELSE res.msg,
          ret |-> IF res.ok THEN <<res.value>> ELSE <<>>]
    ELSE LET caller == eval.stack[n - 1]
             out == OnCalleeResult(caller, CurrentBlock(caller).terminator.target,
                                   res)
         IN [eval EXCEPT !.stack = Append(SubSeq(eval.stack, 1, n - 2), out.act),
                         !.err = out.err]

\* TerminatorKind::Goto { target }
RunGoto ==
    /\ AtTerminator("Goto")
    /\ eval' = [eval EXCEPT !.stack =
                  SetTop(ContinueAt(Top(eval.stack),
                                    CurrentBlock(Top(eval.stack)).terminator.target))]
    /\ UNCHANGED memory

\* TerminatorKind::Call up to the callee's first block
RunCall ==
    /\ AtTerminator("Call")
    /\ eval' = [eval EXCEPT !.stack =
                  Append(eval.stack,
                         NewActivation(CurrentBlock(Top(eval.stack)).terminator.fn))]
    /\ UNCHANGED memory

\* TerminatorKind::Return: read_from_place(local 0)?
RunReturn ==
    /\ AtTerminator("Return")
    /\ LET v == Top(eval.stack).frame[0]
       IN eval' = IF v = <<>>
                  THEN [eval EXCEPT !.err = "Uninitialized local"]
                  ELSE RunReturns([ok |-> TRUE, value |-> v[1], msg |-> ""])
    /\ UNCHANGED memory

\* _ => bail!("Unsupported terminator")
RunUnsupported ==
    /\ AtTerminator("Unsupported")
    /\ eval' = [eval EXCEPT !.err = "Unsupported terminator"]
    /\ UNCHANGED memory

\* `?` in run, execute_terminator and execute_call: the run of the top call
\* returns the error
PropagateError ==
    /\ Running
    /\ eval.err # ""
    /\ eval' = RunReturns([ok |-> FALSE, value |-> 0, msg |-> eval.err])
    /\ UNCHANGED memory

RunNext ==
    \/ Unevaluated /\ \E body \in RunBodies : RunBody(body)
    \/ RunStatement
    \/ RunGoto
    \/ RunCall
    \/ RunReturn
    \/ RunUnsupported
    \/ PropagateError

RunSpec == Init /\ [][RunNext]_vars

\* The loop of run is sequential: whenever a step is possible it is taken
FairRunSpec == RunSpec /\ WF_vars(RunNext)

----------------------------------------------------------------------------
(* Value (value.rs) and the exit code of the entry invocation (lib.rs): pure   *)
(* functions, each applied once to inputs of its choice                        *)

\* Value::unit(): no bytes
UnitValue == [len |-> 0, pat |-> 0]

\* Faulty as_type: the bytes are read whatever their number
AsTypeAnyLength(v, ty) == <<AsType(v, ty)>>

\* Value::as_type::<T>: T::read_from_bytes(&self.data).ok(), Some only for a
\* value of exactly T's size
AsTypeChecked(v, ty) == IF v.len = ty.bits THEN <<AsType(v, ty)>> ELSE <<>>

\* val.as_type::<u128>() == Some(0) || val.is_unit() in run_main
RunMain(v) ==
    IF AsTypeChecked(v, [signed |-> FALSE, bits |-> WideBits]) = <<0>> \/ v.len = 0
    THEN "SUCCESS"
    ELSE "FAILURE"

\* run_main on the result of the entry invocation
ExitCodeOf(v) ==
    /\ Unevaluated
    /\ eval' = [op |-> "run_main", result |-> v, code |-> RunMain(v)]
    /\ UNCHANGED memory

\* Value::from_type(n) of type ty read back with as_type at type as
RoundTrip(ty, n, as) ==
    /\ Unevaluated
    /\ eval' = [op |-> "round_trip", ty |-> ty, n |-> n, as |-> as,
                value |-> FromType(n, ty),
                back |-> AsTypeChecked(FromType(n, ty), as)]
    /\ UNCHANGED memory

\* Value::from_bool(b) read back with as_bool
BoolRoundTrip(b) ==
    /\ Unevaluated
    /\ eval' = [op |-> "bool_round_trip", b |-> b, value |-> FromBool(b),
                back |-> AsBool(FromBool(b))]
    /\ UNCHANGED memory

\* Total size in bytes of the largest aggregate
MaxTupleSize == 4

\* The byte strings of the fields of an aggregate: a zero-sized, a one-byte or
\* a two-byte value
FieldValues == UNION { [1..n -> Byte] : n \in 0..2 }

\* The aggregates: up to three fields
Tuples == UNION { [1..n -> FieldValues] : n \in 0..3 }

\* The layouts the compiler may report for an aggregate of these fields: an
\* offset per field and a total size, the fields inside the total size and
\* no two of them overlapping
Layouts(values) ==
    { l \in [offsets : [DOMAIN values -> 0..MaxTupleSize], size : 0..MaxTupleSize] :
        /\ \A i \in DOMAIN values : l.offsets[i] + Len(values[i]) <= l.size
        /\ \A i, j \in DOMAIN values :
              (i < j /\ Len(values[i]) > 0 /\ Len(values[j]) > 0) =>
                 \/ l.offsets[i] + Len(values[i]) <= l.offsets[j]
                 \/ l.offsets[j] + Len(values[j]) <= l.offsets[i] }

\* The loop of from_tuple_with_layout from field i on:
\* result.data[offset..end].copy_from_slice(&value.data) for each non-empty
\* field that has an offset (byte k of the buffer is result[k + 1])
RECURSIVE PackFields(_, _, _, _)
PackFields(buf, values, offsets, i) ==
    IF i > Len(values) THEN buf
    ELSE LET field == values[i]
             copied ==
                IF Len(field) > 0 /\ i \in DOMAIN offsets
                THEN [k \in DOMAIN buf |->
                        IF offsets[i] < k /\ k <= offsets[i] + Len(field)
                        THEN field[k - offsets[i]]
                        ELSE buf[k]]
                ELSE buf
         IN PackFields(copied, values, offsets, i + 1)

\* Faulty packing: every field is copied to the start of the buffer
FromTupleAtZero(values, layout) ==
    PackFields([k \in 1..layout.size |-> 0], values,
               [i \in DOMAIN layout.offsets |-> 0], 1)

\* Value::from_tuple_with_layout: Self::with_size(total_size), then the fields
FromTupleWithLayout(values, layout) ==
    PackFields([k \in 1..layout.size |-> 0], values, layout.offsets, 1)

\* Rvalue::Aggregate of a tuple, struct or closure
PackTuple(values, layout) ==
    /\ Unevaluated
    /\ eval' = [op |-> "from_tuple", values |-> values, layout |-> layout,
                result |-> FromTupleWithLayout(values, layout)]
    /\ UNCHANGED memory

\* One function is applied in each behaviour
ValueNext ==
    \/ Unevaluated /\ \E v \in IntValues \cup {UnitValue} : ExitCodeOf(v)
    \/ Unevaluated /\ \E ty \in IntTypes, as \in IntTypes :
          \E n \in MinOf(ty)..MaxOf(ty) : RoundTrip(ty, n, as)
    \/ Unevaluated /\ \E b \in BOOLEAN : BoolRoundTrip(b)
    \/ Unevaluated /\ \E values \in Tuples : \E layout \in Layouts(values) :
          PackTuple(values, layout)

ValueSpec == Init /\ [][ValueNext]_vars

----------------------------------------------------------------------------
(* The MemorySanitizer on its own: any sequence of register_alloc,             *)
(* deregister_alloc and contains calls on one sanitizer, until one panics      *)

\* The slices register_alloc / deregister_alloc can be handed: the address is
\* not null and the slice does not wrap the address space
Buffers == { b \in (1..MaxUsize) \X (0..MaxUsize) : b[1] + b[2] <= MaxUsize }

SanStep(op, address, size, res) ==
    /\ san' = [op |-> op, address |-> address, size |-> size, res |-> res,
               prev |-> allocations]
    /\ status' = IF res \in {"abort", "panic"} THEN "aborted" ELSE status
    /\ UNCHANGED <<eval, overflow_checks, frames, calls, result, nextId, peak, log,
                   ptr, acc, bytes, value>>

\* MemorySanitizer::register_alloc(buf)
SanRegister(address, size) ==
    /\ status = "ready"
    /\ <<address, size>> \in Buffers
    /\ IF RegisterAborts(allocations, address, size)
       THEN /\ allocations' = allocations
            /\ SanStep("register", address, size, "abort")
       ELSE /\ allocations' = RegisterAlloc(allocations, address, size)
            /\ SanStep("register", address, size, "ok")

\* MemorySanitizer::deregister_alloc(buf)
SanDeregister(address, size) ==
    /\ status = "ready"
    /\ <<address, size>> \in Buffers
    /\ IF DeregisterAborts(allocations, address, size)
       THEN /\ allocations' = allocations
            /\ SanStep("deregister", address, size, "abort")
       ELSE /\ allocations' = DeregisterAlloc(allocations, address, size)
            /\ SanStep("deregister", address, size, "ok")

\* MemorySanitizer::contains(address, size), for any two usize values
SanContains(address, size) ==
    /\ status = "ready"
    /\ allocations' = allocations
    /\ SanStep("contains", address, size,
               ContainsOutcome(overflow_checks, allocations, address, size))

SanNext ==
    \/ \E address \in Addr, size \in Addr : SanRegister(address, size)
    \/ \E address \in Addr, size \in Addr : SanDeregister(address, size)
    \/ \E address \in Addr, size \in Addr : SanContains(address, size)

SanSpec == Init /\ [][SanNext]_vars

----------------------------------------------------------------------------
(* Properties *)

\* The ranges recorded for the live frames: what register_alloc has recorded
\* and deregister_alloc has not yet removed, if both are paired
LiveRanges ==
    { <<frames[i].addr, frames[i].size>> : i \in { j \in DOMAIN frames : frames[j].size > 0 } }

\* C1: every frame pushed and registered by with_stack_frame is popped and
\* deregistered exactly once when its body finishes, whether the body returned a
\* value or an error; until then it is neither popped nor deregistered, and the
\* sanitizer records exactly the buffers of the frames still on the stack.
FrameReleasedExactlyOnce ==
    /\ \A id \in DOMAIN log :
          IF log[id].outcome = "live"
          THEN log[id].pops = 0 /\ log[id].deregs = 0 /\ id \in LiveIds
          ELSE log[id].pops = 1 /\ log[id].deregs = 1 /\ id \notin LiveIds
    /\ allocations = LiveRanges

\* A run that ended after one nested call returned a value and another an error
FrameReleasedAfterOkAndErr ==
    /\ status = "done"
    /\ \E i, j \in DOMAIN log : log[i].outcome = "ok" /\ log[j].outcome = "err"
    /\ \E i \in DOMAIN log : log[i].outcome = "err" /\ log[i].deregs = 1

\* C2: once the outermost call has returned, with a value or an error, whatever
\* the depth reached, the sanitizer has no registered allocation and the frame
\* list is empty.
StackEmptyAfterOutermostReturn ==
    status = "done" => allocations = {} /\ frames = <<>>

\* The outermost call returned after the nesting reached the deepest level
OutermostReturnedFromMaxDepth ==
    status = "done" /\ peak = MaxDepth /\ Len(log) = MaxCalls

\* The bytes of [address, address + size)
Bytes(address, size) == { x \in Addr : address <= x /\ x < address + size }

\* C3: after any sequence of register_alloc and deregister_alloc calls that did
\* not abort, no two recorded ranges share a byte.
NoTwoRangesIntersect ==
    status # "aborted" =>
        \A e1, e2 \in allocations :
            e1 # e2 => Bytes(e1[1], e1[2]) \cap Bytes(e2[1], e2[2]) = {}

\* Three ranges are recorded, two of them touching, after a deregistration
ThreeRangesAfterDeregister ==
    /\ san.op = "deregister" /\ san.res = "ok" /\ san.size > 0
    /\ Cardinality(allocations) >= 3
    /\ \E e1, e2 \in allocations : e1[1] + e1[2] = e2[1]

\* [address, address + size) lies inside one recorded range
InsideOne(allocs, address, size) ==
    \E e \in allocs : e[1] <= address /\ address + size <= e[1] + e[2]

\* C4: contains(address, size) is true exactly when [address, address + size)
\* lies entirely inside one registered range, for every address and size.
ContainsIffInsideOne ==
    san.op = "contains" =>
        (san.res = "true" <=> InsideOne(san.prev, san.address, san.size))

\* contains accepted a request whose end address wrapped around
ContainsAcceptsWrappedRange ==
    /\ san.op = "contains" /\ san.res = "true"
    /\ Overflows(san.address, san.size)
    /\ ~InsideOne(san.prev, san.address, san.size)

\* Where the end of the request is representable, contains is exact
ContainsExactWithoutWrap ==
    (san.op = "contains" /\ ~Overflows(san.address, san.size)) =>
        (san.res = "true" <=> InsideOne(san.prev, san.address, san.size))

\* [address, address + size) shares a byte with a recorded range
Intersects(allocs, address, size) ==
    \E e \in allocs : Bytes(e[1], e[2]) \cap Bytes(address, size) # {}

\* C5: register_alloc of a non-empty range that shares a byte with a registered
\* range aborts and records nothing; of a range disjoint from every registered
\* range (touching ones included) it succeeds and every range stays registered.
RegisterRejectsExactlyOverlaps ==
    (san.op = "register" /\ san.size > 0) =>
        IF Intersects(san.prev, san.address, san.size)
        THEN san.res = "abort" /\ allocations = san.prev
        ELSE /\ san.res = "ok"
             /\ allocations = san.prev \cup { <<san.address, san.size>> }

\* register_alloc aborted on a range that strictly contains a registered one
RegisterAbortedOnEnclosingRange ==
    /\ san.op = "register" /\ san.res = "abort"
    /\ \E e \in san.prev :
          san.address < e[1] /\ e[1] + e[2] < san.address + san.size

\* The part of C6 that does not depend on the size of the ranges queried
DeregisterRemovesExactlyOne(sizes) ==
    (san.op = "deregister" /\ san.size > 0) =>
        IF san.address \notin AllocStarts(san.prev)
        THEN san.res = "abort" /\ allocations = san.prev
        ELSE LET removed == <<san.address, AllocSize(san.prev, san.address)>> IN
             /\ san.res = "ok"
             /\ allocations = san.prev \ {removed}
             /\ \A a \in Addr, n \in sizes :
                    (removed[1] <= a /\ a + n <= removed[1] + removed[2])
                        => ~Contains(allocations, a, n)

\* C6 as amended: deregister_alloc of a non-empty buffer aborts when its start
\* is not the start of a registered allocation; otherwise it removes exactly
\* that entry, contains is then false for every non-empty range inside the
\* removed allocation, and every other entry is unchanged.
DeregisterRemovesNonEmptyRanges == DeregisterRemovesExactlyOne(1..MaxUsize)

\* C6 as stated: the same for every range inside the removed allocation, the
\* empty ones included.
DeregisterRemovesEveryRange == DeregisterRemovesExactlyOne(0..MaxUsize)

\* An allocation was removed whose start is the end of one that stays
DeregisteredNextToNeighbour ==
    /\ san.op = "deregister" /\ san.res = "ok" /\ san.size > 0
    /\ \E e \in allocations : e[1] + e[2] = san.address

\* The last step was a typed access that passed the checks made before the
\* segments are consulted (alignment, and for a write the length of the value)
Accessed ==
    /\ acc.op \in {"read", "write"}
    /\ acc.address % acc.ty.align = 0
    /\ acc.len = acc.ty.size

\* The address lies in a registered allocation
InSomeAllocation(allocs, address) ==
    \E e \in allocs : e[1] <= address /\ address < e[1] + e[2]

\* C7: every read_addr / write_addr that succeeds touches only bytes inside a
\* single allocation registered at the moment of the access.
SuccessfulAccessInsideOneAllocation ==
    (Accessed /\ acc.res = "Ok") => InsideOne(allocations, acc.address, acc.len)

\* An access succeeded on bytes outside every registered allocation
AccessSucceededOutsideAllocations ==
    /\ Accessed /\ acc.res = "Ok" /\ acc.len > 0
    /\ ~InSomeAllocation(allocations, acc.address)

\* The pointer held points to a non-zero-sized local of a call that has returned
Dangling == ptr # NoPtr /\ ptr.frame \notin LiveIds /\ ptr.ty.size > 0

\* The last step was an access through the pointer held
AccessedThroughPtr ==
    Accessed /\ acc.address = ptr.addr /\ acc.ty = ptr.ty

\* C8: after a call has returned, every later read or write through a pointer
\* to one of its locals fails with a memory-access error (out of bounds or not
\* found), also while and after further calls push and pop frames.
DanglingAccessFails ==
    (Dangling /\ AccessedThroughPtr) =>
        acc.res \in {"StackOutOfBounds", "HeapOutOfBounds", "StaticOutOfBounds",
                     "NotFound"}

\* A read or write through a dangling pointer succeeded
DanglingAccessSucceeded ==
    Dangling /\ AccessedThroughPtr /\ acc.res = "Ok"

\* C9: a typed access at an aligned address that lies in no allocation is tried
\* against stack, heap and statics in this order and fails with "address not
\* found in any segment".
UnallocatedAddressNotFound ==
    (Accessed /\ ~InSomeAllocation(allocations, acc.address)) =>
        /\ acc.res = "NotFound"
        /\ acc.consulted = <<"stack", "heap", "statics">>

\* An access at an address in no allocation ended at the stack, out of bounds
UnallocatedAddressStackOutOfBounds ==
    /\ Accessed /\ ~InSomeAllocation(allocations, acc.address)
    /\ ~Overflows(acc.address, acc.len)
    /\ acc.res = "StackOutOfBounds" /\ acc.consulted = <<"stack">>

\* The base lies inside a registered allocation and the range ends past its end
ExtendsPastAllocation(allocs, address, size) ==
    \E e \in allocs :
        e[1] <= address /\ address < e[1] + e[2] /\ address + size > e[1] + e[2]

\* C10: a typed access whose base lies inside a stack allocation and whose
\* range extends past the end of that allocation fails with an out-of-bounds
\* error, and heap and statics are not consulted.
PastEndIsStackOutOfBounds ==
    (Accessed /\ ExtendsPastAllocation(allocations, acc.address, acc.len)) =>
        acc.res = "StackOutOfBounds" /\ acc.consulted = <<"stack">>

\* An access extending past the end of its allocation did not fail out of bounds
PastEndNotRejected ==
    /\ Accessed /\ ExtendsPastAllocation(allocations, acc.address, acc.len)
    /\ acc.res \in {"Ok", "panic"}

\* Where the end of the request is representable, C7 and C10 hold
AccessExactWithoutWrap ==
    (Accessed /\ ~Overflows(acc.address, acc.len)) =>
        /\ acc.res = "Ok" => InsideOne(allocations, acc.address, acc.len)
        /\ ExtendsPastAllocation(allocations, acc.address, acc.len) =>
              acc.res = "StackOutOfBounds" /\ acc.consulted = <<"stack">>

----------------------------------------------------------------------------
(* Typed access: alignment and length checks, bytes written *)

\* The step performed a typed read or write
TypedAccess == acc'.op \in {"read", "write"}

\* C11: a read_addr or write_addr at an address that is not a multiple of the
\* type's alignment fails with the misaligned-access error before any segment
\* or the sanitizer is consulted, and changes no byte of memory, even when the
\* addressed range lies inside a live allocation.
MisalignedAccessRejected ==
    [][ (TypedAccess /\ acc'.address % acc'.ty.align # 0)
        => /\ acc'.res = "Misaligned"
           /\ acc'.consulted = <<>>
           /\ bytes' = bytes ]_vars

\* A write of the right length at a misaligned address inside a live
\* allocation was rejected as misaligned
MisalignedWriteInsideAllocation ==
    /\ acc.op = "write"
    /\ acc.len = acc.ty.size
    /\ acc.address % acc.ty.align # 0
    /\ acc.res = "Misaligned"
    /\ \E al \in allocations :
           al[1] <= acc.address /\ acc.address + acc.len <= al[1] + al[2]

\* C12: write_addr fails and changes no byte when the data's length differs
\* from the size of the type; a successful write_addr stores the data in the
\* size-of-type bytes starting at the address and leaves every other byte, of
\* every frame, as it was.
WriteChangesExactlyItsBytes ==
    [][ acc'.op = "write" =>
          \A data \in { d \in Datas : Len(d) = acc'.len } :
             MemWriteAddr(acc'.address, data, acc'.ty) =>
               /\ Len(data) # acc'.ty.size => (acc'.res # "Ok" /\ bytes' = bytes)
               /\ acc'.res = "Ok" =>
                     \A a \in Addr :
                        bytes'[a] = IF /\ acc'.address <= a
                                       /\ a < acc'.address + acc'.ty.size
                                    THEN data[a - acc'.address + 1]
                                    ELSE bytes[a] ]_vars

\* A two-byte write succeeded in one of two live frames and the other frame
\* holds a byte written before
WroteTwoBytesBesideOtherFrame ==
    /\ acc.op = "write"
    /\ acc.res = "Ok"
    /\ acc.len = 2
    /\ bytes[acc.address] = 1
    /\ Len(frames) = 2
    /\ \E i \in DOMAIN frames :
          /\ ~(frames[i].addr <= acc.address
                   /\ acc.address < frames[i].addr + frames[i].size)
          /\ \E a \in Addr :
                /\ frames[i].addr <= a /\ a < frames[i].addr + frames[i].size
                /\ bytes[a] = 1

----------------------------------------------------------------------------
(* Places: the return slot and writes through references *)

\* The Return terminator of the running call has read its non-zero-sized local 0
ReturnSlotRead ==
    /\ calls # <<>>
    /\ frames # <<>>
    /\ Top(calls).pending \in {"ret", "err"}
    /\ Top(frames).locals[1].size > 0
    /\ acc.op = "read"
    /\ acc.address = LocalAddress(Top(frames), 1)

PointsTo(r, p) ==
    LET f == Top(frames) IN
    /\ {r, p} \subseteq DOMAIN f.locals
    /\ IsPointer(f.locals[r])
    /\ Pointee(f.locals[r]) = f.locals[p]
    /\ bytes[LocalAddress(f, r)] = LocalAddress(f, p)

\* C14: write through a pointer. When r holds the address of place p and a
\* value v is assigned to the place (*r), the bytes of p then hold v and no
\* byte outside p has changed; a read of a place returns the bytes it holds,
\* so a later read of p returns v.
WriteThroughPointerReachesPointee ==
    [][ /\ (acc'.op = "deref write" /\ acc'.res = "Ok") =>
              \A r \in 1..3, p \in 1..3 :
                 PointsTo(r, p) =>
                    \A v \in { d \in Datas : Len(d) = acc'.len } :
                       AssignDeref(r, v) =>
                          LET at == LocalAddress(Top(frames), p) IN
                          \A a \in Addr :
                             bytes'[a] = IF at <= a /\ a < at + Len(v)
                                         THEN v[a - at + 1]
                                         ELSE bytes[a]
        /\ (acc'.op = "read" /\ acc'.res = "Ok") =>
              \A p \in 1..3 :
                 UseLocal(p) =>
                    value' = ReadBytes(bytes, LocalAddress(Top(frames), p),
                                       Top(frames).locals[p].size) ]_vars

\* `x = 0; r = &mut x; *r = 1`: the two-byte x was written through r
WroteThroughReference ==
    /\ acc.op = "deref write"
    /\ acc.res = "Ok"
    /\ acc.len = 2
    /\ BodyRuns
    /\ PointsTo(3, 2)
    /\ acc.address = LocalAddress(Top(frames), 2)
    /\ bytes[acc.address] = 1

----------------------------------------------------------------------------
(* SwitchInt *)

\* The target the table gives for discriminant d: the branch whose value is d,
\* else the otherwise block
TableTarget(d) ==
    IF \E i \in DOMAIN eval.branches : eval.branches[i][1] = d
    THEN eval.branches[CHOOSE i \in DOMAIN eval.branches :
                          eval.branches[i][1] = d][2]
    ELSE eval.otherwise

SwitchIntUsesDeclaredWidth ==
    (eval.op = "SwitchInt" /\ eval.discr.ty = "int")
        => eval.target = TableTarget(eval.discr.raw)

\* -1 of the narrow type missed the branch for its bit pattern and went to
\* the otherwise block
MinusOneMissedItsBranch ==
    /\ eval.op = "SwitchInt"
    /\ eval.discr = [ty |-> "int", raw |-> 2 ^ NarrowBits - 1]
    /\ eval.branches = << <<2 ^ NarrowBits - 1, "BB_A">> >>
    /\ eval.otherwise = "BB_B"
    /\ eval.target = "BB_B"

----------------------------------------------------------------------------
(* Call *)

----------------------------------------------------------------------------
(* The "Assert" terminator *)

\* C18: an "Assert" terminator evaluates its condition as a boolean; when the
\* condition equals the expected value execution continues at the target,
\* otherwise the invocation fails with the terminator's diagnostic message.
CheckedConditionDecidesFlow ==
    (eval.op = "terminator" /\ eval.terminator.kind = "Assert") =>
        IF eval.terminator.cond = eval.terminator.expected
        THEN /\ eval.outcome.flow = "Continue"
             /\ eval.outcome.block = eval.terminator.target
        ELSE /\ eval.outcome.flow = "Err"
             /\ eval.outcome.msg = eval.terminator.msg

\* A division's zero check held (the divisor was not zero) and the invocation
\* failed all the same, as an unsupported terminator
PassingCheckRejected ==
    /\ eval.op = "terminator"
    /\ eval.terminator.kind = "Assert"
    /\ eval.terminator.msg = "attempt to divide by zero"
    /\ eval.terminator.cond = eval.terminator.expected
    /\ eval.outcome.flow = "Err"
    /\ eval.outcome.msg = "Unsupported terminator"

----------------------------------------------------------------------------
(* Integer arithmetic *)

\* A binary operator was evaluated on two operands of its static type
WellSized ==
    /\ eval.op = "binop"
    /\ eval.l.len = eval.ty.bits
    /\ eval.r.len = eval.ty.bits

\* The operands as numbers of the static type
LeftInt == AsType(eval.l, eval.ty)

RightInt == AsType(eval.r, eval.ty)

Representable(n) == MinOf(eval.ty) <= n /\ n <= MaxOf(eval.ty)

\* The evaluation returned the number n as a value of the static type
Returned(n) ==
    /\ eval.outcome.res = "Ok"
    /\ eval.outcome.value.len = eval.ty.bits
    /\ AsType(eval.outcome.value, eval.ty) = n

FailedWith(msg) == eval.outcome.res = "Err" /\ eval.outcome.msg = msg

\* C19: for every width and both signednesses, add, sub and mul at the static
\* operand type return the exact mathematical result when the type can
\* represent it and fail with an overflow error otherwise; they never wrap.
CheckedArithmeticIsExact ==
    (WellSized /\ eval.bin \in {"Add", "Sub", "Mul"}) =>
        LET n == IF eval.bin = "Add" THEN LeftInt + RightInt
                 ELSE IF eval.bin = "Sub" THEN LeftInt - RightInt
                 ELSE LeftInt * RightInt
        IN IF Representable(n) THEN Returned(n) ELSE FailedWith("overflow")

\* MAX + 1 of the signed wide type failed
MaxPlusOneFailed ==
    /\ WellSized
    /\ eval.bin = "Add"
    /\ eval.ty = [signed |-> TRUE, bits |-> WideBits]
    /\ LeftInt = MaxOf(eval.ty)
    /\ RightInt = 1
    /\ FailedWith("overflow")

\* q is a divided by b, rounded toward zero
IsTruncatedQuotient(q, a, b) ==
    LET m == a - q * b IN
    /\ Abs(m) < Abs(b)
    /\ m = 0 \/ (m < 0) = (a < 0)

\* Division at the static type: by zero it fails, MIN / -1 overflows, every
\* other division returns the quotient rounded toward zero
DivisionIsChecked ==
    (WellSized /\ eval.bin = "Div") =>
        IF RightInt = 0 THEN FailedWith("Division by zero")
        ELSE IF LeftInt = MinOf(eval.ty) /\ RightInt = -1 THEN FailedWith("overflow")
        ELSE /\ eval.outcome.res = "Ok"
             /\ eval.outcome.value.len = eval.ty.bits
             /\ IsTruncatedQuotient(AsType(eval.outcome.value, eval.ty),
                                    LeftInt, RightInt)

----------------------------------------------------------------------------
(* Comparisons, bitwise operators, boolean operands and unary operators *)

\* Bit i of a bit pattern
Bit(pat, i) == (pat \div 2 ^ i) % 2

\* The evaluation returned the boolean b as a one-byte value
ReturnedBool(b) ==
    /\ eval.outcome.res = "Ok"
    /\ eval.outcome.value = [len |-> NarrowBits, pat |-> IF b THEN 1 ELSE 0]

\* C21: on integer operands of the static type, eq/ne/lt/le/gt/ge compare the
\* operands as numbers of that type (signed order for signed types, unsigned
\* order for unsigned types) and return a one-byte boolean; and/or/xor return
\* the bit-by-bit result at the operand width.
IntComparisonsAndBitwiseAreExact ==
    WellSized =>
        /\ eval.bin = "Eq" => ReturnedBool(LeftInt = RightInt)
        /\ eval.bin = "Ne" => ReturnedBool(LeftInt # RightInt)
        /\ eval.bin = "Lt" => ReturnedBool(LeftInt < RightInt)
        /\ eval.bin = "Le" => ReturnedBool(LeftInt <= RightInt)
        /\ eval.bin = "Gt" => ReturnedBool(LeftInt > RightInt)
        /\ eval.bin = "Ge" => ReturnedBool(LeftInt >= RightInt)
        /\ eval.bin \in {"BitAnd", "BitOr", "BitXor"} =>
              /\ eval.outcome.res = "Ok"
              /\ eval.outcome.value.len = eval.ty.bits
              /\ eval.outcome.value.pat \in 0..(2 ^ eval.ty.bits - 1)
              /\ \A i \in 0..(eval.ty.bits - 1) :
                    LET x == Bit(eval.l.pat, i) = 1
                        y == Bit(eval.r.pat, i) = 1
                        z == Bit(eval.outcome.value.pat, i) = 1
                    IN z = IF eval.bin = "BitAnd" THEN x /\ y
                           ELSE IF eval.bin = "BitOr" THEN x \/ y
                           ELSE x # y

\* The bytes of -1 were found below 1 at the signed narrow type, and would
\* be above it at the unsigned type of the same bytes
MinusOneBelowOneWhenSigned ==
    /\ WellSized
    /\ eval.bin = "Le"
    /\ eval.ty = [signed |-> TRUE, bits |-> NarrowBits]
    /\ eval.l.pat = 2 ^ NarrowBits - 1
    /\ eval.r.pat = 1
    /\ LeftInt = -1
    /\ ReturnedBool(TRUE)

\* A value that Value::from_bool produces
IsBool(v) == v.len = NarrowBits /\ v.pat \in {0, 1}

\* C22 (as stated): and, or and xor all apply to boolean operands and return
\* the boolean result, for every pair of booleans.
BitwiseOperatorsApplyToBooleans ==
    (eval.op = "boolbinop" /\ IsBool(eval.l) /\ IsBool(eval.r)) =>
        LET a == eval.l.pat = 1
            b == eval.r.pat = 1
        IN /\ eval.bin = "BitAnd" => ReturnedBool(a /\ b)
           /\ eval.bin = "BitOr" => ReturnedBool(a \/ b)
           /\ eval.bin = "BitXor" => ReturnedBool(a # b)

\* true ^ false was rejected as an unsupported operation
XorOfBooleansUnsupported ==
    /\ eval.op = "boolbinop"
    /\ eval.bin = "BitXor"
    /\ eval.l = [len |-> NarrowBits, pat |-> 1]
    /\ eval.r = [len |-> NarrowBits, pat |-> 0]
    /\ FailedWith("Unsupported boolean binary operation")

\* A unary operator was evaluated on an operand of its integer result type
UnWellSized == eval.op = "unop" /\ eval.v.len = eval.ty.bits

\* C23 (as stated): negate on a signed integer returns the negated value and
\* fails with an overflow error on MIN; negate on an unsigned integer fails;
\* not returns the logical negation of a boolean and the bitwise complement
\* of an integer, signed or unsigned, at its width.
UnaryOperatorsAreExact ==
    /\ (UnWellSized /\ eval.un = "Neg") =>
          IF ~eval.ty.signed THEN eval.outcome.res = "Err"
          ELSE IF AsType(eval.v, eval.ty) = MinOf(eval.ty)
          THEN FailedWith("Integer overflow in negation")
          ELSE Returned(-AsType(eval.v, eval.ty))
    /\ (eval.op = "boolunop" /\ eval.un = "Not" /\ IsBool(eval.v)) =>
          ReturnedBool(eval.v.pat = 0)
    /\ (UnWellSized /\ eval.un = "Not") =>
          /\ eval.outcome.res = "Ok"
          /\ eval.outcome.value.len = eval.ty.bits
          /\ eval.outcome.value.pat \in 0..(2 ^ eval.ty.bits - 1)
          /\ \A i \in 0..(eval.ty.bits - 1) :
                Bit(eval.outcome.value.pat, i) = 1 - Bit(eval.v.pat, i)

\* !0 at the unsigned narrow type was rejected
NotOfIntegerRejected ==
    /\ UnWellSized
    /\ eval.un = "Not"
    /\ eval.ty = [signed |-> FALSE, bits |-> NarrowBits]
    /\ eval.v.pat = 0
    /\ eval.outcome.res = "Err"

\* An operand's length differs from the size of the static operand type
OperandMismatch ==
    \/ eval.op = "binop" /\ (eval.l.len # eval.ty.bits \/ eval.r.len # eval.ty.bits)
    \/ eval.op = "boolbinop" /\ (eval.l.len # NarrowBits \/ eval.r.len # NarrowBits)
    \/ eval.op = "unop" /\ eval.v.len # eval.ty.bits
    \/ eval.op = "boolunop" /\ eval.v.len # NarrowBits

\* C24 (as stated): an operand whose length does not match the static operand
\* type makes the evaluation return an error, which propagates like any other;
\* the interpreter is not aborted and no result is computed.
OperandMismatchIsAnError ==
    OperandMismatch => eval.outcome.res = "Err"

\* Adding a narrow value to a wide one at the wide type aborted the
\* interpreter
MismatchedOperandPanicked ==
    /\ eval.op = "binop"
    /\ eval.bin = "Add"
    /\ eval.ty = [signed |-> TRUE, bits |-> WideBits]
    /\ eval.l = [len |-> WideBits, pat |-> 1]
    /\ eval.r = [len |-> NarrowBits, pat |-> 1]
    /\ eval.outcome.res = "panic"

----------------------------------------------------------------------------
(* Unsupported statements, rvalues and terminators *)

\* A statement that is neither an Assign of a supported rvalue nor one of the
\* three no-ops
UnsupportedStatement(stmt) ==
    IF stmt.kind = "Assign" THEN stmt.rv # "Use"
    ELSE stmt.kind \notin {"StorageLive", "StorageDead", "Nop"}

\* C25: a statement other than Assign, StorageLive, StorageDead and Nop, an
\* Assign of an rvalue outside the supported set and a terminator outside the
\* supported set each stop execution with an unsupported-operation error;
\* none is skipped, and the failing step writes neither the frame nor memory.
UnsupportedKindsStopExecution ==
    [][ /\ (eval'.op \in {"run", "failed"} /\ eval'.step = "statement"
              /\ UnsupportedStatement(eval'.stmt)) =>
             /\ eval'.op = "failed"
             /\ eval'.msg = IF eval'.stmt.kind = "Assign"
                            THEN "Unsupported rvalue"
                            ELSE "Unsupported statement"
             /\ eval'.frame = Top(eval.stack).frame
             /\ memory' = memory
        /\ (eval'.op = "terminator"
              /\ eval'.terminator.kind
                    \notin {"Return", "Goto", "SwitchInt", "Call", "Assert"}) =>
             /\ eval'.outcome.flow = "Err"
             /\ eval'.outcome.msg = "Unsupported terminator"
             /\ memory' = memory ]_vars

\* An Assign of a CheckedBinaryOp to local 1 failed as unsupported and left
\* the value that local 1 already held
UnsupportedRvalueLeftFrame ==
    /\ eval.op = "failed"
    /\ eval.step = "statement"
    /\ eval.stmt.kind = "Assign"
    /\ eval.stmt.rv = "CheckedBinaryOp"
    /\ eval.stmt.local = 1
    /\ eval.stmt.o = [kind |-> "const", n |-> 0]
    /\ eval.msg = "Unsupported rvalue"
    /\ eval.frame[1] = <<1>>

----------------------------------------------------------------------------
(* Recursion depth *)

\* The ceilings that can be configured below the depth explored here
Ceilings == 1..(MaxDepth - 1)

\* C26 (as stated): interpreted recursion is guarded by a depth counter with a
\* configurable ceiling: a call that would exceed the ceiling fails, so
\* whatever ceiling is configured the number of interpreters (and frames)
\* live at once never exceeds it.
LiveFramesWithinCeiling ==
    \A ceiling \in Ceilings : eval.op = "run" => Len(eval.stack) <= ceiling

\* A Call terminator nested a callee at the deepest level explored, and the
\* callee runs
CallNestedBeyondEveryCeiling ==
    /\ eval.op = "run"
    /\ eval.step = "call"
    /\ Len(eval.stack) = MaxDepth
    /\ \A ceiling \in Ceilings : Len(eval.stack) > ceiling

----------------------------------------------------------------------------
(* Exit code, round trips and aggregates *)

\* C27 (as stated): a zero-valued integer of any width, signed or unsigned,
\* and the unit value map to success; every other result maps to failure.
ZeroOrUnitIsSuccess ==
    eval.op = "run_main" =>
        (eval.code = "SUCCESS") = (eval.result.len = 0 \/ eval.result.pat = 0)

\* A zero of the narrow width was mapped to failure
NarrowZeroIsFailure ==
    /\ eval.op = "run_main"
    /\ eval.result = [len |-> NarrowBits, pat |-> 0]
    /\ eval.code = "FAILURE"

\* C29: for every fixed-width integer type and value v of it, from_type(v)
\* read back at the same type is v, and read back at a type of another size
\* is None; for every boolean b, from_bool(b).as_bool() is b.
ValueRoundTrips ==
    /\ eval.op = "round_trip" =>
          /\ eval.as = eval.ty => eval.back = <<eval.n>>
          /\ eval.as.bits # eval.ty.bits => eval.back = <<>>
    /\ eval.op = "bool_round_trip" => eval.back = <<eval.b>>

\* MIN of the signed narrow type came back as MIN at its own type
SignedMinCameBack ==
    /\ eval.op = "round_trip"
    /\ eval.ty = [signed |-> TRUE, bits |-> NarrowBits]
    /\ eval.as = eval.ty
    /\ eval.n = -(2 ^ (NarrowBits - 1))
    /\ eval.value.len = NarrowBits
    /\ eval.back = <<eval.n>>

\* The bytes of the packed buffer from offset `from`, `len` of them
Slice(data, from, len) == [k \in 1..len |-> data[from + k]]

\* C30: the packed buffer has the aggregate's total size; for every field the
\* bytes at its offset are the field's bytes (re-slicing recovers the field),
\* and every byte that no field covers is zero.
PackedFieldsAtTheirOffsets ==
    eval.op = "from_tuple" =>
        LET offsets == eval.layout.offsets
            values == eval.values
        IN /\ Len(eval.result) = eval.layout.size
           /\ \A i \in DOMAIN values :
                 Slice(eval.result, offsets[i], Len(values[i])) = values[i]
           /\ \A k \in 1..eval.layout.size :
                 (\A i \in DOMAIN values :
                     ~(offsets[i] < k /\ k <= offsets[i] + Len(values[i])))
                 => eval.result[k] = 0

\* Three fields of one, one and two bytes (the shape of (u8, bool, u32)) were
\* packed with the widest field first and re-sliced to their bytes
ThreeFieldsPackedReordered ==
    /\ eval.op = "from_tuple"
    /\ eval.values = << <<1>>, <<1>>, <<0, 1>> >>
    /\ eval.layout = [offsets |-> <<2, 3, 0>>, size |-> 4]
    /\ eval.result = <<0, 1, 1, 1>>

----------------------------------------------------------------------------
(* Length of the values the interpreter produces *)

\* The length of a Value of the declared type of a scalar constant: the
\* constants are of the one-byte types i8, u8 and bool
DeclaredLen(c) == "one"

\* C28 (as stated): every Value produced for an operand of type T has byte
\* length exactly size_of(T); here, the value of the constant operand of a
\* SwitchInt.
ValueLengthIsSizeOfType ==
    eval.op = "SwitchInt" =>
        EvaluateConstant(eval.discr).len = DeclaredLen(eval.discr)

\* The u8 constant 1 was evaluated to a value of sixteen bytes
ByteConstantBecameWide ==
    /\ eval.op = "SwitchInt"
    /\ eval.discr = [ty |-> "uint", raw |-> 1]
    /\ EvaluateConstant(eval.discr) = [len |-> "wide", pat |-> 1]

----------------------------------------------------------------------------
(* StackFrame::new on its own, over every list of locals *)

MaxLocals == 4

U32Ty == [name |-> "u32", size |-> 4, align |-> 4]

\* body.locals(): the return slot and up to MaxLocals - 1 more locals
LocalLists == UNION { [1..n -> Types \cup {U32Ty}] : n \in 1..MaxLocals }

\* StackFrame::new(body)
NewStackFrame(body) ==
    /\ eval' = [op |-> "StackFrame::new", body |-> body,
                offsets |-> StackFrameNew(body).offsets,
                data |-> StackFrameData(body)]
    /\ UNCHANGED memory

LayoutNext == Unevaluated /\ \E body \in LocalLists : NewStackFrame(body)

LayoutSpec == Init /\ [][LayoutNext]_vars

----------------------------------------------------------------------------
(* Zero-sized places and values *)

\* C31: reading a place whose type has size 0 returns the unit value without
\* resolving an address, reading memory or consulting the sanitizer; it
\* succeeds in every memory state, also when the pointer the place goes
\* through is dangling, and leaves memory and the sanitizer unchanged.
ZeroSizedReadTouchesNothing ==
    [][ \A place \in Places :
          (UsePlace(place) /\ PlaceTy(Top(frames), place).size = 0) =>
             /\ eval'.outcome = [res |-> "Ok", value |-> <<>>, reads |-> <<>>]
             /\ value' = <<>>
             /\ UNCHANGED <<bytes, allocations, frames, status, calls>> ]_vars

\* (*_2) of type () was read to the unit value while the pointer in _2 pointed
\* into no allocation
UnitReadThroughDanglingPointer ==
    /\ eval.op = "read_from_place"
    /\ eval.place = [local |-> 3, deref |-> TRUE]
    /\ eval.ty = UnitTy
    /\ eval.outcome.res = "Ok"
    /\ BodyRuns
    /\ ~InSomeAllocation(allocations, bytes[LocalAddress(Top(frames), 3)])

\* C32: a function of no arguments with a zero-sized return type that assigns
\* a zero-sized value to its return local runs to success: the zero-length
\* write into local 0 succeeds, also when the frame's total size is 0.
ZeroSizedReturnWriteSucceeds ==
    (acc.op = "write" /\ acc.ty = UnitTy /\ acc.len = 0) =>
        /\ acc.res = "Ok"
        /\ calls # <<>> => Top(calls).pending # "err"

\* _0 = const () in a body whose only local is the unit return slot: nothing
\* is registered for the frame and the write is out of bounds of the stack
ZeroLengthWriteRejectedInEmptyFrame ==
    /\ acc.op = "write" /\ acc.ty = UnitTy /\ acc.len = 0
    /\ frames # <<>> /\ Top(frames).locals = <<UnitTy>> /\ Top(frames).size = 0
    /\ acc.address = LocalAddress(Top(frames), 1)
    /\ allocations = {}
    /\ acc.res = "StackOutOfBounds"
    /\ calls # <<>> /\ Top(calls).pending = "err"

----------------------------------------------------------------------------
(* Frame layout *)

\* C33: StackFrame::new gives the locals offsets in declaration order; every
\* offset is a multiple of the local's alignment, the byte ranges of distinct
\* locals do not overlap, the offsets are non-decreasing, the buffer is as long
\* as the last local's offset plus its size, and every byte of it is zero.
FrameLayoutWellFormed ==
    eval.op = "StackFrame::new" =>
        LET locals == eval.body
            offsets == eval.offsets
            n == Len(locals)
        IN /\ Len(offsets) = n
           /\ \A i \in 1..n : offsets[i] % locals[i].align = 0
           /\ \A i \in 1..n, j \in 1..n :
                  i # j => \/ offsets[i] + locals[i].size <= offsets[j]
                           \/ offsets[j] + locals[j].size <= offsets[i]
           /\ \A i \in 1..n, j \in 1..n : i < j => offsets[i] <= offsets[j]
           /\ Len(eval.data) = offsets[n] + locals[n].size
           /\ \A k \in DOMAIN eval.data : eval.data[k] = 0

\* A frame with padding before two of its locals
PaddedFrameBuilt ==
    /\ eval.op = "StackFrame::new"
    /\ eval.body = <<U8Ty, U16Ty, U8Ty, U32Ty>>
    /\ eval.offsets = <<0, 2, 4, 8>>
    /\ Len(eval.data) = 12

----------------------------------------------------------------------------
(* The frame list and the sanitizer between steps *)

\* C34: between steps the ranges registered in the stack sanitizer are exactly
\* the buffers of the frames on the list that have a non-zero size (frames of
\* size 0 are on the list without an entry), and the frame list is in
\* call-nesting order with the running call's frame last.
RegisteredAreNonEmptyFrames ==
    LET sized == { i \in DOMAIN frames : frames[i].size # 0 } IN
    /\ \A e \in allocations :
          e[2] > 0 /\ \E i \in sized : e = <<frames[i].addr, frames[i].size>>
    /\ \A i \in sized : <<frames[i].addr, frames[i].size>> \in allocations
    /\ Cardinality(allocations) = Cardinality(sized)
    /\ Len(frames) = Len(calls)
    /\ \A i \in DOMAIN frames :
          /\ frames[i].id = calls[i].id
          /\ frames[i].addr = calls[i].address
          /\ \A j \in DOMAIN frames : i < j => frames[i].id < frames[j].id

\* A call with a frame of size 0 runs inside a call with a registered frame
EmptyFrameAboveRegisteredFrame ==
    /\ BodyRuns
    /\ Len(frames) = 2
    /\ frames[1].size > 0 /\ frames[2].size = 0
    /\ allocations = { <<frames[1].addr, frames[1].size>> }

\* C35: for every nesting of calls, when a call's body finishes the last frame
\* on the list is the frame the call pushed at entry: the "Unexpected stack
\* frame" assertion of with_stack_frame holds and deregister_alloc finds the
\* frame's range.
ReturningCallFindsItsFrame ==
    (status = "running" /\ calls # <<>>) =>
        /\ frames # <<>>
        /\ Top(frames).id = Top(calls).id
        /\ Top(frames).addr = Top(calls).address
        /\ ~DeregisterAborts(allocations, Top(frames).addr, Top(frames).size)

\* The outer call is about to finish after calls nested to the deepest level
\* have returned, the last of them with an error
OuterFinishesAfterNestedReturns ==
    /\ status = "running"
    /\ Len(calls) = 1
    /\ peak = MaxDepth
    /\ Len(log) = MaxCalls
    /\ Top(calls).pending = "err"
    /\ \E id \in DOMAIN log : log[id].outcome = "ok"

----------------------------------------------------------------------------
(* Fail-stop execution and termination of run *)

\* C36: execution is fail-stop. The statements of a block run in order and
\* then its terminator; after the first error of a statement, a terminator or
\* a callee no statement or terminator of any call in the chain runs, the
\* destination of the failing Call is not written, and the entry invocation
\* ends with that error.
ExecutionIsFailStop ==
    /\ [](eval.op = "run" =>
            \A i \in DOMAIN eval.stack :
                eval.stack[i].ran = [k \in 1..(eval.stack[i].stmt - 1) |-> k])
    /\ [][ (eval.op = "run" /\ eval.err # "") =>
             LET n == Len(eval.stack) IN
             /\ eval'.err = eval.err
             /\ eval'.ret = <<>>
             /\ eval'.stack = SubSeq(eval.stack, 1, n - 1)
             /\ eval'.op = IF n = 1 THEN "failed" ELSE "run" ]_vars
    /\ [][ (eval.op = "run" /\ eval.err = "" /\ eval'.op = "run" /\
            (\/ Len(eval'.stack) # Len(eval.stack)
             \/ Top(eval'.stack).current_block # Top(eval.stack).current_block
             \/ eval'.err \in {"Unsupported terminator", "Uninitialized local"}))
           => Top(eval.stack).ran =
                [k \in 1..Len(CurrentBlock(Top(eval.stack)).statements) |-> k]
         ]_vars

\* The error of a statement two calls down is on its way out: it has left
\* the failing callee and neither its caller nor the entry call has its
\* destination written
ErrorLeavingNestedCalls ==
    /\ eval.op = "run"
    /\ eval.err = "Unsupported statement"
    /\ Len(eval.stack) = 2
    /\ eval.stack[2].fn = "mid"
    /\ eval.stack[2].frame[1] = <<>>
    /\ eval.stack[1].frame = [l \in 0..1 |-> IF l = 0 THEN <<1>> ELSE <<>>]

----------------------------------------------------------------------------
(* Index projections *)

\* C37: an Index projection on an array of length L with an index i >= L
\* never ends in a successful read or write: the access fails with a
\* memory-access error and does not reach the bytes of a neighbouring local.
OutOfRangeIndexNeverSucceeds ==
    (eval.op = "index" /\ eval.index >= eval.len) => eval.res # "Ok"

\* _1[_3] = const 1 with _3 = 1 on a [u8; 1]: the store succeeded and went to
\* the local after the array
IndexWriteReachedNeighbour ==
    /\ eval.op = "index" /\ eval.access = "write"
    /\ eval.len = 1 /\ eval.index = 1
    /\ eval.res = "Ok"
    /\ BodyRuns
    /\ Top(frames).locals = <<U8Ty, ArrU8x1Ty, U8Ty, UsizeTy>>
    /\ eval.address = LocalAddress(Top(frames), 3)
    /\ 3 \in Top(frames).written
    /\ bytes[eval.address] = 1

----------------------------------------------------------------------------
(* The end address of a request *)

\* C38: contains(address, size) is false, never true, whenever address + size
\* exceeds the largest representable address: the sum does not wrap and get
\* accepted as lying inside an allocation.
ContainsFalseOnWrappedEnd ==
    (san.op = "contains" /\ Overflows(san.address, san.size)) =>
        san.res = "false"

\* With overflow checks on, contains panicked on a request whose end is not
\* representable while an allocation was registered
ContainsPanickedOnWrappedEnd ==
    /\ san.op = "contains"
    /\ Overflows(san.address, san.size)
    /\ overflow_checks
    /\ san.prev # {}
    /\ san.res = "panic"

----------------------------------------------------------------------------
(* Pointers into a caller's frame *)

\* The callee's pointer local r holds the address of local l of the entry
\* call, whose type is the pointee
PointsToCallerLocal(r, l) ==
    /\ Len(frames) >= 2
    /\ r \in DOMAIN Top(frames).locals
    /\ IsPointer(Top(frames).locals[r])
    /\ l \in DOMAIN frames[1].locals
    /\ frames[1].locals[l] = Pointee(Top(frames).locals[r])
    /\ bytes[LocalAddress(Top(frames), r)] = LocalAddress(frames[1], l)

Successors(body, b) ==
    IF body[b].terminator.kind \in {"Goto", "Call"}
    THEN {body[b].terminator.target}
    ELSE {}

\* The blocks reachable from the blocks of S, S included
RECURSIVE ReachableFrom(_, _)
ReachableFrom(body, S) ==
    LET T == S \cup UNION { Successors(body, b) : b \in S }
    IN IF T = S THEN S ELSE ReachableFrom(body, T)

\* No block can be reached from itself
Acyclic(body) ==
    \A b \in RunBlocks :
        b \notin ReachableFrom(body, Successors(body, b))

\* The entry body and every function it can call are acyclic; no callee here
\* calls its caller
AcyclicNonRecursive(entry) ==
    /\ Acyclic(entry)
    /\ \A b \in RunBlocks :
          entry[b].terminator.kind = "Call" =>
              /\ Acyclic(CalleeBody(entry[b].terminator.fn))
              /\ \A c \in RunBlocks :
                    LET t == CalleeBody(entry[b].terminator.fn)[c].terminator
                    IN t.kind = "Call" => Acyclic(CalleeBody(t.fn))

\* From block b on, every block is a Goto whose statements cannot fail
GotoCycleWithoutExit(body, b) ==
    \A c \in ReachableFrom(body, {b}) :
        /\ body[c].terminator.kind = "Goto"
        /\ \A i \in DOMAIN body[c].statements : body[c].statements[i] = "Assign"

\* The running call has entered such a cycle
Spinning ==
    /\ eval.op = "run"
    /\ eval.stack # <<>>
    /\ eval.err = ""
    /\ GotoCycleWithoutExit(BodyOf(eval.entry, Top(eval.stack).fn),
                            Top(eval.stack).current_block)

\* C40: an invocation ends only by executing a Return terminator or by an
\* error; when the block graphs are acyclic and the calls non-recursive it
\* eventually ends, having entered each block at most once; once a call is in
\* a Goto cycle with no exit the invocation never ends.
RunEndsExactlyWhenItCan ==
    /\ [][ (eval.op = "run" /\ eval'.op # "run") =>
             IF eval.err = ""
             THEN /\ Len(eval.stack) = 1
                  /\ AtTerminator("Return")
                  /\ eval'.op = "returned"
                  /\ eval'.ret = Top(eval.stack).frame[0]
             ELSE eval'.op = "failed" /\ eval'.err = eval.err ]_vars
    /\ (eval.op = "run" /\ AcyclicNonRecursive(eval.entry))
          ~> (eval.op \in {"returned", "failed"})
    /\ [](eval.op = "run" /\ AcyclicNonRecursive(eval.entry) =>
             \A i \in DOMAIN eval.stack : ~eval.stack[i].revisited)
    /\ [](Spinning => [](eval.op = "run"))

\* An acyclic entry body called a function, continued at its second block and
\* returned: each block of either body ran once
ReturnedAfterCallAndGoto ==
    /\ eval.op = "returned"
    /\ AcyclicNonRecursive(eval.entry)
    /\ eval.entry[1].terminator = [kind |-> "Call", fn |-> "ok", target |-> 2]
    /\ eval.entry[2] = ReturnBlock(<<"Assign">>)
    /\ eval.ret = <<1>>

====
